---------------------------- MODULE Spec2Model ----------------------------
(***************************************************************************)
(* Wallet-portfolio aggregation service (eth.af backend).                  *)
(*                                                                         *)
(* Two revisions of the service are modelled side by side:                 *)
(*   build = "fast"  src/server.js lines 1-738 (v9, "ultra fast")          *)
(*   build = "safe"  src/unnamed/part_002      (v10, "working version")    *)
(* A behaviour runs one revision: build is fixed by Init.                  *)
(*                                                                         *)
(* Strings are sequences of one-character strings, so that toLowerCase,    *)
(* startsWith, endsWith, includes and the regular expressions of the code  *)
(* are computed and not assumed.                                           *)
(*                                                                         *)
(* Time is counted in seconds (every timeout of the code is a whole number *)
(* of seconds).  Balances are counted in units of 1e-10 token, prices in   *)
(* whole USD per token, so USD values are in units of 1e-10 USD.           *)
(***************************************************************************)
EXTENDS Integers, Sequences, FiniteSets, TLC

(***************************************************************************)
(* String primitives (JavaScript String.prototype)                         *)
(***************************************************************************)
UpperLetters == <<"A","B","C","D","E","F","G","H","I","J","K","L","M","N","O","P","Q","R","S","T","U","V","W","X","Y","Z">>
LowerLetters == <<"a","b","c","d","e","f","g","h","i","j","k","l","m","n","o","p","q","r","s","t","u","v","w","x","y","z">>
Digits == {"0","1","2","3","4","5","6","7","8","9"}
HexDigits == Digits \cup {"a","b","c","d","e","f","A","B","C","D","E","F"}

LowerChar(c) ==
    IF \E i \in 1..26 : UpperLetters[i] = c
    THEN LowerLetters[CHOOSE i \in 1..26 : UpperLetters[i] = c]
    ELSE c

UpperChar(c) ==
    IF \E i \in 1..26 : LowerLetters[i] = c
    THEN UpperLetters[CHOOSE i \in 1..26 : LowerLetters[i] = c]
    ELSE c

toLowerCase(s) == [i \in 1..Len(s) |-> LowerChar(s[i])]
toUpperCase(s) == [i \in 1..Len(s) |-> UpperChar(s[i])]

\* p occurs in s starting at position i
MatchAt(s, i, p) ==
    /\ i >= 1
    /\ i + Len(p) - 1 <= Len(s)
    /\ \A k \in 1..Len(p) : s[i + k - 1] = p[k]

startsWith(s, p) == MatchAt(s, 1, p)
endsWith(s, p) == MatchAt(s, Len(s) - Len(p) + 1, p)
includes(s, p) == \E i \in 1..(Len(s) + 1) : MatchAt(s, i, p)

(***************************************************************************)
(* Literals of the source                                                  *)
(***************************************************************************)
L_visit == <<"v","i","s","i","t">>
L_visitSp == <<"v","i","s","i","t"," ">>
L_dotcom == <<".","c","o","m">>
L_www == <<"w","w","w",".">>
L_http == <<"h","t","t","p",":","/","/">>
L_https == <<"h","t","t","p","s",":","/","/">>
L_zepe == <<"z","e","p","e",".","i","o">>
L_airdrop == <<"a","i","r","d","r","o","p">>
L_claim == <<"c","l","a","i","m">>
L_bonus == <<"b","o","n","u","s">>
L_fake == <<"f","a","k","e">>
L_test == <<"t","e","s","t">>
L_erc20 == <<"e","r","c","-","2","0">>
L_token == <<"t","o","k","e","n">>
L_free == <<"f","r","e","e">>
L_dotEth == <<".","e","t","h">>
L_walletPrefix == <<"w","a","l","l","e","t","_">>
L_0x == <<"0","x">>
TldSuffixes == { <<".","c","o","m">>, <<".","i","o">>, <<".","o","r","g">>,
                 <<".","n","e","t">>, <<".","x","y","z">>, <<".","t","k">> }

S_ETH == <<"E","T","H">>
S_WETH == <<"W","E","T","H">>
S_MATIC == <<"M","A","T","I","C">>
S_BNB == <<"B","N","B">>
S_AVAX == <<"A","V","A","X">>
S_USDC == <<"U","S","D","C">>
S_USDT == <<"U","S","D","T">>
S_DAI == <<"D","A","I">>
S_BUSD == <<"B","U","S","D">>
S_TUSD == <<"T","U","S","D">>
S_USDD == <<"U","S","D","D">>
S_FRAX == <<"F","R","A","X">>
S_WBTC == <<"W","B","T","C">>
S_LINK == <<"L","I","N","K">>
S_UNI == <<"U","N","I">>
S_PEPE == <<"P","E","P","E">>

(***************************************************************************)
(* Spam classifier of the fast build: SPAM_PATTERNS.tokens / isSpamToken   *)
(***************************************************************************)
\* /\$\d+\.?free/i : a dollar sign, one or more digits, an optional dot, "free"
DollarFree(s) ==
    \E i \in 1..Len(s) : \E j \in (i + 1)..Len(s) :
        /\ s[i] = "$"
        /\ \A k \in (i + 1)..j : s[k] \in Digits
        /\ \/ MatchAt(toLowerCase(s), j + 1, L_free)
           \/ (j + 1 <= Len(s) /\ s[j + 1] = "." /\ MatchAt(toLowerCase(s), j + 2, L_free))

\* /claim.*bonus/i
ClaimBonus(s) ==
    \E i \in 1..Len(s) : \E j \in (i + Len(L_claim))..Len(s) :
        MatchAt(toLowerCase(s), i, L_claim) /\ MatchAt(toLowerCase(s), j, L_bonus)

\* one test of the twelve regular expressions of SPAM_PATTERNS.tokens on s
SPAM_PATTERNS_tokens(s) ==
    LET l == toLowerCase(s) IN
    \/ (startsWith(l, L_visit) /\ endsWith(l, L_dotcom) /\ Len(l) >= Len(L_visit) + Len(L_dotcom))
    \/ startsWith(l, L_www)
    \/ startsWith(l, L_http) \/ startsWith(l, L_https)
    \/ DollarFree(s)
    \/ ClaimBonus(s)
    \/ includes(l, L_airdrop)
    \/ startsWith(l, L_fake)
    \/ startsWith(l, L_test)
    \/ includes(l, L_zepe)
    \/ \E suf \in TldSuffixes : endsWith(l, suf)
    \/ l = L_erc20
    \/ l = L_token

NameLenLimit == 50
SymbolLenLimit == 20
AddrHexLen == 40

isSpamToken(token) ==
    LET checkString == toLowerCase(token.name \o <<" ">> \o token.symbol) IN
    \/ SPAM_PATTERNS_tokens(token.name)
    \/ SPAM_PATTERNS_tokens(token.symbol)
    \/ Len(token.name) > NameLenLimit
    \/ Len(token.symbol) > SymbolLenLimit
    \/ (token.name = token.symbol /\ Len(token.name) = AddrHexLen)
    \/ (token.usdValue = 0 /\ includes(checkString, L_visit))

(***************************************************************************)
(* Spam classifier of the safe build: LEGITIMATE_TOKENS / isLikelySpamToken *)
(***************************************************************************)
LEGITIMATE_TOKENS == {
    S_ETH, S_WETH, S_USDC, S_USDT, S_DAI, S_WBTC, S_LINK, S_UNI,
    <<"A","A","V","E">>, <<"M","K","R">>, <<"S","N","X">>, <<"C","R","V">>,
    <<"S","U","S","H","I">>, <<"Y","F","I">>, <<"C","O","M","P">>, <<"B","A","L">>,
    S_MATIC, S_BNB, S_AVAX, <<"F","T","M">>, <<"O","P">>, <<"A","R","B">>, S_PEPE,
    <<"S","H","I","B">>, <<"D","O","G","E">>, <<"A","P","E">>, <<"S","A","N","D">>,
    <<"M","A","N","A">>, <<"A","X","S">>, <<"G","A","L","A">>, <<"E","N","J">>,
    <<"C","H","Z">>, <<"B","L","U","R">>, <<"L","D","O">>, <<"R","P","L">>,
    <<"F","X","S">>, S_FRAX, <<"G","R","T">>, <<"E","N","S">>, <<"B","A","T">>,
    <<"Z","R","X">>, <<"1","I","N","C","H">>, S_BUSD, S_TUSD, <<"U","S","D","P">>,
    <<"R","A","I">>, <<"L","U","S","D">>, <<"M","I","M">>, <<"C","V","X">>,
    <<"C","R","O">>, <<"Q","N","T">>, <<"R","N","D","R">>, <<"I","M","X">>,
    <<"L","R","C">>, <<"O","C","E","A","N">>, <<"A","G","I","X">>, <<"F","E","T">>,
    <<"G","N","O">>, <<"R","D","N","T">>, <<"G","M","X">>, <<"G","N","S">>,
    <<"P","E","N","D","L","E">> }

\* 0.01 USD in units of 1e-10 USD
Materiality == 100000000

\* /^0x[a-fA-F0-9]{40}$/
IsRawAddressText(s) ==
    /\ Len(s) = Len(L_0x) + AddrHexLen
    /\ startsWith(s, L_0x)
    /\ \A k \in (Len(L_0x) + 1)..Len(s) : s[k] \in HexDigits

isLikelySpamToken(token) ==
    LET tokenName == toLowerCase(token.name) IN
    IF toUpperCase(token.symbol) \in LEGITIMATE_TOKENS THEN FALSE
    ELSE IF token.usdValue > Materiality THEN FALSE
    ELSE IF startsWith(tokenName, L_visitSp) /\ includes(tokenName, L_dotcom) THEN TRUE
    ELSE IF startsWith(tokenName, L_www) \/ startsWith(tokenName, L_http)
            \/ startsWith(tokenName, L_https) THEN TRUE
    ELSE IF IsRawAddressText(token.name) /\ token.usdValue = 0 THEN TRUE
    ELSE FALSE


(***************************************************************************)
(* Bounds of the model                                                     *)
(***************************************************************************)
\* number of requests the clients may issue in the concurrent specifications
NumReq == 2

Reqs == 1..NumReq

(***************************************************************************)
(* Program constants (seconds; units of 1e-10 token)                       *)
(***************************************************************************)
\* new NodeCache({ stdTTL: 300 }) and cache.set(cacheKey, responseData, 300)
CacheTTL == 300
\* parseFloat(formatted) > 0.000001
NativeDust == 10000
\* parseFloat(balance) < 0.000000001
TokenDust == 10
\* fallback prices of the code, USD per token
EthFallbackPrice == 2000
MaticFallbackPrice == 1

Builds == {"fast", "safe"}

\* the chains of CHAINS / fetchPromises that the model configures, in the
\* order of the source
Chains == <<"ethereum", "polygon">>
Providers == {"ens", "nft", "explorer", "market", "dex"} \cup {Chains[i] : i \in 1..Len(Chains)}
ChainSet == {Chains[i] : i \in 1..Len(Chains)}
ChainIdx(c) == CHOOSE i \in 1..Len(Chains) : Chains[i] = c

EnsTimeout(b) == IF b = "fast" THEN 3 ELSE 5
ChainTimeout(b, c) == IF b = "fast" THEN 2 ELSE IF c = "ethereum" THEN 15 ELSE 10
NftTimeout(b) == IF b = "fast" THEN 3 ELSE 10
ActivityTimeout(b) == IF b = "fast" THEN 2 ELSE 5
PriceBudget(b) == IF b = "fast" THEN 1 ELSE 5
NativeCallTimeout(b) == IF b = "fast" THEN 1 ELSE 5
BalancesCallTimeout(b) == IF b = "fast" THEN 2 ELSE 10
MetadataCallTimeout(b) == IF b = "fast" THEN 1 ELSE 5
NftCallTimeout(b) == IF b = "fast" THEN 5 ELSE 15
FloorRaceTimeout(b) == 3
FloorCallTimeout(b) == 2
ActivityCallTimeout(b) == IF b = "fast" THEN 2 ELSE 5
MarketCallTimeout(b) == IF b = "fast" THEN 1 ELSE 3
DexCallTimeout(b) == 2
BatchSize(b) == IF b = "fast" THEN 5 ELSE 10

\* the longest of the timers that wrap the branches of the fetching stage
LongestBranchTimer(b) ==
    LET all == {ChainTimeout(b, c) : c \in ChainSet} \cup {NftTimeout(b), ActivityTimeout(b)}
    IN  CHOOSE m \in all : \A x \in all : x <= m

(***************************************************************************)
(* Request inputs and the address helpers                                  *)
(***************************************************************************)
A_lower == <<"0","x","d","8","d","a","6","b","f","2","6","9","6","4","a","f","9","d","7","e","e","d","9","e","0","3","e","5","3","4","1","5","d","3","7","a","a","9","6","0","4","5">>
A_check == <<"0","x","d","8","d","A","6","B","F","2","6","9","6","4","a","F","9","D","7","e","E","d","9","e","0","3","E","5","3","4","1","5","D","3","7","a","A","9","6","0","4","5">>
A_badsum == <<"0","x","D","8","d","a","6","b","f","2","6","9","6","4","a","f","9","d","7","e","e","d","9","e","0","3","e","5","3","4","1","5","d","3","7","a","a","9","6","0","4","5">>
I_bad == <<"n","o","t","-","a","n","-","a","d","d","r","e","s","s">>
I_ens == <<"v","i","t","a","l","i","k",".","e","t","h">>
I_ENS == <<"V","i","t","a","l","i","k",".","E","T","H">>
Null == <<>>

AllInputs == {A_lower, A_check, A_badsum, I_bad, I_ens, I_ENS}

\* the EIP-55 checksum form of an all-lowercase address (a keccak digest
\* decides the case of each letter: tabulated for the sample address)
ChecksumForm(l) == IF l = A_lower THEN A_check ELSE l

IsMixedCase(s) ==
    /\ \E i \in 1..Len(s) : s[i] \in {"A","B","C","D","E","F"}
    /\ \E i \in 1..Len(s) : s[i] \in {"a","b","c","d","e","f"}

\* ethers.isAddress: 0x and 40 hex digits; a mixed-case value must carry
\* the right checksum
isAddress(s) ==
    /\ IsRawAddressText(s)
    /\ (IsMixedCase(SubSeq(s, Len(L_0x) + 1, Len(s))) => s = ChecksumForm(toLowerCase(s)))

\* a key made of the address the input stands for
cacheKeyResolved(input) ==
    L_walletPrefix \o toLowerCase(IF endsWith(toLowerCase(input), L_dotEth) THEN A_check ELSE input)

\* a key that keeps the letter case of the input
cacheKeyExact(input) == L_walletPrefix \o input

cacheKey(input) == L_walletPrefix \o toLowerCase(input)
isEnsName(input) == endsWith(toLowerCase(input), L_dotEth)

CacheKeys == {cacheKey(i) : i \in AllInputs}


(***************************************************************************)
(* Upstream data: what the providers hold for the sample address           *)
(***************************************************************************)
N_UsdCoin == <<"U","S","D"," ","C","o","i","n">>
N_VisitAirdrop == <<"V","i","s","i","t"," ","f","r","e","e","-","a","i","r","d","r","o","p",".","c","o","m">>
N_Foo == <<"F","o","o"," ","T","o","k","e","n">>
N_WrappedEther == <<"W","r","a","p","p","e","d"," ","E","t","h","e","r">>
N_Bar == <<"B","a","r">>
N_EthOnEthereum == <<"E","T","H"," ","o","n"," ","E","t","h","e","r","e","u","m">>
N_Ethereum == <<"E","t","h","e","r","e","u","m">>
S_FREE == <<"F","R","E","E">>
S_FOO == <<"F","O","O">>
S_BAR == <<"B","A","R">>

\* alchemy_getTokenMetadata / alchemy_getTokenBalances, by contract
Erc20 ==
    [ usdc |-> [name |-> N_UsdCoin,      symbol |-> S_USDC, balance |-> 100000, dexPrice |-> 0],
      free |-> [name |-> N_VisitAirdrop, symbol |-> S_FREE, balance |-> 100000000, dexPrice |-> 3],
      foo  |-> [name |-> N_Foo,          symbol |-> S_FOO,  balance |-> 100000, dexPrice |-> 3],
      weth |-> [name |-> N_WrappedEther, symbol |-> S_WETH, balance |-> 50000,  dexPrice |-> 0],
      bar  |-> [name |-> N_Bar,          symbol |-> S_BAR,  balance |-> 100000, dexPrice |-> 0] ]

\* the non-zero token balances of each chain, in the provider's order
TokenBalances(c) == IF c = "ethereum" THEN <<"usdc", "free", "weth">> ELSE <<"foo", "bar">>

\* provider.getBalance: a balance above the dust threshold, or exactly on it
NativeBalances == {100000, NativeDust}

nativeSymbol(c) == IF c = "polygon" THEN S_MATIC ELSE S_ETH

nativeName(b, c) ==
    IF b = "fast"
    THEN (IF nativeSymbol(c) = S_ETH THEN N_EthOnEthereum ELSE nativeSymbol(c))
    ELSE (IF c = "polygon" THEN S_MATIC ELSE N_Ethereum)

\* the dust tests of fetchChainTokensFast / fetchTokensSafe: the native entry
\* is pushed if parseFloat(formatted) > 0.000001, an ERC-20 entry is dropped
\* if parseFloat(balance) < 0.000000001
PassesDust(h) ==
    IF h.isNative THEN h.balance > NativeDust ELSE ~(h.balance < TokenDust)

\* the native entry pushed by the chain token fetcher
NativeToken(c, bal) ==
    [id |-> "native", chain |-> c, isNative |-> TRUE, contract |-> FALSE,
     balance |-> bal, price |-> 0, usdValue |-> 0]

\* the entry built from a metadata answer
Erc20Token(c, id) ==
    [id |-> id, chain |-> c, isNative |-> FALSE, contract |-> TRUE,
     balance |-> Erc20[id].balance, price |-> 0, usdValue |-> 0]

TName(b, t) == IF t.isNative THEN nativeName(b, t.chain) ELSE Erc20[t.id].name
TSymbol(t) == IF t.isNative THEN nativeSymbol(t.chain) ELSE Erc20[t.id].symbol

\* the fields of a token object the classifiers read
TokenView(b, t) == [name |-> TName(b, t), symbol |-> TSymbol(t), usdValue |-> t.usdValue]

\* the token filter the handler of each build applies
IsSpam(b, t) ==
    IF b = "fast" THEN isSpamToken(TokenView(b, t)) ELSE isLikelySpamToken(TokenView(b, t))

\* NFT collections the indexer holds for the address, in the provider's order
N_Azuki == <<"A","z","u","k","i">>
N_TestPass == <<"T","e","s","t"," ","P","a","s","s">>
N_EnsNames == <<"E","N","S",":"," ","E","t","h","e","r","e","u","m"," ","N","a","m","e"," ","S","e","r","v","i","c","e">>
N_GreatestApes == <<"G","r","e","a","t","e","s","t"," ","A","p","e","s">>
N_FooCats == <<"F","o","o"," ","C","a","t","s">>
N_PixelPals == <<"P","i","x","e","l"," ","P","a","l","s">>
N_MoonCats == <<"M","o","o","n"," ","C","a","t","s">>
NftCatalog ==
    [ azuki    |-> [name |-> N_Azuki,        items |-> 2, floor |-> 5, hasImage |-> TRUE],
      testpass |-> [name |-> N_TestPass,     items |-> 1, floor |-> 0, hasImage |-> TRUE],
      ensnames |-> [name |-> N_EnsNames,     items |-> 1, floor |-> 0, hasImage |-> TRUE],
      greatest |-> [name |-> N_GreatestApes, items |-> 2, floor |-> 3, hasImage |-> TRUE],
      foocats  |-> [name |-> N_FooCats,      items |-> 1, floor |-> 0, hasImage |-> FALSE],
      pixel    |-> [name |-> N_PixelPals,    items |-> 1, floor |-> 0, hasImage |-> TRUE],
      mooncats |-> [name |-> N_MoonCats,     items |-> 6, floor |-> 0, hasImage |-> TRUE] ]
OwnedNfts == <<"azuki", "testpass">>

\* transactions the explorer holds
Transactions == <<"tx1", "tx2">>

(***************************************************************************)
(* Sequence helpers (Array.prototype)                                      *)
(***************************************************************************)
RECURSIVE SumUsd(_)
SumUsd(s) == IF s = <<>> THEN 0 ELSE Head(s).usdValue + SumUsd(Tail(s))

\* allTokens.sort((a, b) => (b.usdValue || 0) - (a.usdValue || 0)): the sort
\* is stable, so the element at index i goes behind the elements of greater
\* value and behind the earlier elements of the same value
SortByValue(s) ==
    LET place(i) == 1 + Cardinality({j \in 1..Len(s) :
                            \/ s[j].usdValue > s[i].usdValue
                            \/ s[j].usdValue = s[i].usdValue /\ j < i})
    IN  [k \in 1..Len(s) |-> s[CHOOSE i \in 1..Len(s) : place(i) = k]]

RECURSIVE ConcatChains(_, _)
ConcatChains(f, i) ==
    IF i > Len(Chains) THEN <<>> ELSE f[Chains[i]] \o ConcatChains(f, i + 1)

\* [...new Set(tokens.map(t => t.chain))]: chains in order of first appearance
RECURSIVE ChainsInOrder(_, _)
ChainsInOrder(s, seen) ==
    IF s = <<>> THEN <<>>
    ELSE IF Head(s).chain \in seen THEN ChainsInOrder(Tail(s), seen)
    ELSE <<Head(s).chain>> \o ChainsInOrder(Tail(s), seen \cup {Head(s).chain})


(***************************************************************************)
(* State                                                                   *)
(***************************************************************************)
VARIABLES
    build,          \* the revision that runs: "fast" or "safe"
    etherscanKey,   \* process.env.ETHERSCAN_API_KEY is set
    net,            \* how the upstream providers behave in this behaviour
    quota,          \* requests the clients may still issue
    inputs,         \* the inputs the clients ask for
    overlap,        \* the clients send a request while another is in flight
    cache,          \* the response cache (NodeCache): key -> <<>> or <<[val, age]>>
    rq,             \* per request: the handler's locals and the promises it awaits
    fnArg,          \* argument of the pure function under test
    fnRet           \* its results, <<>> before the call

vars == <<build, etherscanKey, net, quota, inputs, overlap, cache, rq, fnArg, fnRet>>

Min(a, b) == IF a <= b THEN a ELSE b

NoResp == [status |-> 0, error |-> "", body |-> <<>>]

OffFetcher == [pc |-> "off", acc |-> <<>>, due |-> 0, pos |-> 0]

IdleReq ==
    [ pc |-> "idle", input |-> <<>>, address |-> <<>>, ensName |-> Null,
      clock |-> 0, calls |-> {}, hit |-> FALSE,
      ensDue |-> 0, ensOut |-> "none", fetchStart |-> 0, fetchEnd |-> 0,
      chainF |-> [c \in ChainSet |-> OffFetcher],
      chainOut |-> [c \in ChainSet |-> <<>>],
      settled |-> <<>>,
      nftF |-> [pc |-> "off", due |-> 0, cols |-> <<>>, bulk |-> "none"], nftOut |-> <<>>,
      actF |-> [pc |-> "off", due |-> 0, call |-> "none"], actOut |-> <<>>,
      live |-> <<>>, nfts |-> <<>>, activity |-> <<>>,
      priceF |-> [pc |-> "off", due |-> 0, need |-> <<>>, pos |-> 0, market |-> "none"],
      priceDue |-> 0, priceCut |-> FALSE,
      nresp |-> 0, resp |-> NoResp ]

InFlight(r) == rq[r].pc \in {"resolving", "fetching", "pricing"}

\* outcomes a provider call may have, by the behaviour of the providers:
\* how a provider p answers a call: a "flaky" provider may do anything, an
\* "up" provider answers at once with its data, a "down" provider refuses at
\* once, a "slow" provider never answers, a "late" provider answers with its
\* data after some seconds or not at all
Outcomes(p, ok, bad) ==
    CASE net[p] = "flaky" -> ok \cup bad \cup {"timeout"}
      [] net[p] = "up" -> ok
      [] net[p] = "late" -> ok \cup {"timeout"}
      [] net[p] = "down" -> {"fail"}
      [] OTHER -> {"timeout"}

\* the work a request has started is followed until its response is sent:
\* what a fetcher does later reaches neither the response nor the cache
Pending(q) == q.pc \in {"fetching", "pricing"}

\* a call made with a timeout times out once the time is up
TimedOut(q, due) == q.clock >= due

\* a provider answers (or refuses) a call within the second in which the
\* call was made, or not before the call's timeout
Prompt(q, due, timeout) == q.clock = due - timeout

\* timers that never fire
ExpiredNever(q, due) == FALSE

\* a timer of the handler, armed with setTimeout for the instant due, has fired
Expired(q, due) == q.clock >= due

\* timers armed one after the other, each when the previous one has fired
ChainDueSequential(b, q, c) ==
    LET sum[i \in 0..Len(Chains)] == IF i = 0 THEN 0 ELSE sum[i - 1] + ChainTimeout(b, Chains[i])
    IN  q.fetchStart + sum[ChainIdx(c)]

\* the instant for which the timer raced against chain c's fetcher is armed
ChainDue(b, q, c) == q.fetchStart + ChainTimeout(b, c)

Settles(q, out, due, timeout) ==
    IF out = "timeout" THEN TimedOut(q, due) ELSE Prompt(q, due, timeout)

(***************************************************************************)
(* GET /api/wallet/:addressOrEns, from the request to the first await      *)
(***************************************************************************)
\* res.status(400).json({ error })
Respond400(q, msg) ==
    [q EXCEPT !.pc = "done", !.nresp = @ + 1,
              !.resp = [status |-> 400, error |-> msg, body |-> <<>>]]

\* the synchronous part of the handler that creates every branch promise:
\* each fetcher runs up to its first await, each timer is armed
StartFetching(q, addr) ==
    [q EXCEPT
        !.pc = "fetching", !.address = addr, !.fetchStart = q.clock,
        !.chainF = [c \in ChainSet |->
                       [pc |-> "native", acc |-> <<>>, pos |-> 0,
                        due |-> q.clock + NativeCallTimeout(build)]],
        !.chainOut = [c \in ChainSet |-> <<>>],
        !.nftF = [pc |-> "bulk", due |-> q.clock + NftCallTimeout(build), cols |-> <<>>,
                 bulk |-> "none"],
        !.nftOut = <<>>,
        !.actF = IF etherscanKey
                 THEN [pc |-> "call", due |-> q.clock + ActivityCallTimeout(build), call |-> "none"]
                 ELSE [pc |-> "returned", due |-> 0, call |-> "none"],
        !.actOut = IF etherscanKey THEN <<>> ELSE <<[items |-> <<>>, how |-> "returned"]>>,
        !.calls = @ \cup {<<"getBalance", c>> : c \in ChainSet} \cup {<<"getNFTsForOwner">>}
                    \cup (IF etherscanKey THEN {<<"txlist">>} ELSE {})]

\* a handler that starts fetching without validating the address
ValidateNothing(q, addr) == StartFetching(q, addr)

\* if (!ethers.isAddress(address)) return 400, else the fetching stage starts
Validate(q, addr) ==
    IF isAddress(addr) THEN StartFetching(q, addr)
    ELSE Respond400([q EXCEPT !.address = addr], "Invalid Ethereum address")

\* an entry that never expires
CacheLiveForever(key) == cache[key] # <<>>

\* const priceCache = new NodeCache({ stdTTL: 60 }): declared, and read or
\* written by no function of the fast and safe builds
PriceCacheTTL == 60

CacheLive(key) == cache[key] # <<>> /\ cache[key][1].age <= CacheTTL

\* a lookup that stamps the value it returns with a fresh responseTime
CacheGetFresh(entry) == [entry.val EXCEPT !.responseTime = 0]

\* cache.get(cacheKey): a clone of the stored value
CacheGet(entry) == entry.val

\* a lookup that remembers the miss under the key
CacheAfterMissNoted(key) == [cache EXCEPT ![key] = <<[val |-> Null, age |-> 0]>>]

\* cache.get(cacheKey) on a miss: an expired entry is deleted, nothing is
\* stored
CacheAfterMiss(key) == [cache EXCEPT ![key] = <<>>]

\* a request arrives: cache lookup, then name resolution or validation
Arrive(r, in) ==
    /\ quota > 0
    /\ in \in inputs
    /\ overlap \/ \A p \in Reqs : ~InFlight(p)
    /\ rq[r].pc = "idle"
    /\ \A p \in Reqs : p < r => rq[p].pc # "idle"
    /\ quota' = quota - 1
    /\ LET key == cacheKey(in)
           q == [rq[r] EXCEPT !.input = in]
       IN  IF CacheLive(key)
           THEN /\ rq' = [rq EXCEPT ![r] =
                            [q EXCEPT !.pc = "done", !.hit = TRUE, !.nresp = @ + 1,
                                      !.resp = [status |-> 200, error |-> "",
                                                body |-> <<CacheGet(cache[key][1])>>]]]
                /\ cache' = cache
           ELSE /\ cache' = CacheAfterMiss(key)
                /\ rq' = [rq EXCEPT ![r] =
                            IF isEnsName(in)
                            THEN [q EXCEPT !.pc = "resolving", !.ensName = in,
                                           !.ensDue = q.clock + EnsTimeout(build),
                                           !.calls = @ \cup {<<"resolveName">>}]
                            ELSE Validate(q, in)]
    /\ UNCHANGED <<build, etherscanKey, net, inputs, overlap, fnArg, fnRet>>

\* a continuation that goes on with a default address whatever the outcome
EnsResolvedAny(q, out) == StartFetching(q, A_check)

\* the handler's continuation after the race of resolveName and its timer:
\* if (!address) 400; a rejection is caught and answered with 400
EnsResolved(q, out) ==
    CASE out = "address" -> Validate(q, A_check)
      [] out = "null" -> Respond400(q, "Could not resolve ENS name")
      [] OTHER -> Respond400(q, "ENS resolution failed")

\* providers.ethereum.resolveName settles: an address, null, or an error
EnsSettle(r, out) ==
    /\ rq[r].pc = "resolving"
    /\ out \in Outcomes("ens", {"address", "null"}, {"fail"}) \ {"timeout"}
    /\ Prompt(rq[r], rq[r].ensDue, EnsTimeout(build))
    /\ rq' = [rq EXCEPT ![r] = EnsResolved([rq[r] EXCEPT !.ensOut = out], out)]
    /\ UNCHANGED <<build, etherscanKey, net, quota, inputs, overlap, cache, fnArg, fnRet>>

\* the timer raced against resolveName rejects
EnsTimerFire(r) ==
    /\ rq[r].pc = "resolving"
    /\ Expired(rq[r], rq[r].ensDue)
    /\ rq' = [rq EXCEPT ![r] = EnsResolved([rq[r] EXCEPT !.ensOut = "timeout"], "timeout")]
    /\ UNCHANGED <<build, etherscanKey, net, quota, inputs, overlap, cache, fnArg, fnRet>>


(***************************************************************************)
(* fetchChainTokensFast / fetchTokensSafe: one chain's token fetcher       *)
(***************************************************************************)
\* a timer that resolves its branch with what the fetcher has got so far
SettleChainWithPartial(q, c, tokens, how) ==
    IF q.chainOut[c] = <<>> /\ q.pc = "fetching"
    THEN [q EXCEPT !.chainOut[c] = <<[tokens |-> IF how = "timeout" THEN q.chainF[c].acc ELSE tokens,
                                      how |-> how]>>,
                   !.settled = Append(@, c)]
    ELSE q

\* a branch promise settles: the first of the fetcher and its timer wins
SettleChain(q, c, tokens, how) ==
    IF q.chainOut[c] = <<>> /\ q.pc = "fetching"
    THEN [q EXCEPT !.chainOut[c] = <<[tokens |-> tokens, how |-> how]>>,
                   !.settled = Append(@, c)]
    ELSE q

\* return tokens
FetcherReturn(q, c, tokens) ==
    SettleChain([q EXCEPT !.chainF[c].pc = "returned", !.chainF[c].acc = tokens],
                c, tokens, "returned")

\* the entries of alchemy_getTokenBalances the fetcher processes
nonZeroBalances(b, c) ==
    IF b = "fast" THEN SubSeq(TokenBalances(c), 1, Min(Len(TokenBalances(c)), 50))
    ELSE TokenBalances(c)

\* provider.getBalance raced against its timer; then the token list is requested
NativeSettle(r, c, out, bal) ==
    /\ Pending(rq[r])
    /\ rq[r].chainF[c].pc = "native"
    /\ out \in Outcomes(c, {"ok"}, {"fail"})
    /\ Settles(rq[r], out, rq[r].chainF[c].due, NativeCallTimeout(build))
    /\ bal \in NativeBalances
    /\ out # "ok" => bal = NativeDust
    /\ net[c] = "up" => bal > NativeDust
    /\ rq' = [rq EXCEPT ![r] =
                [@ EXCEPT !.chainF[c] =
                              [pc |-> "balances", pos |-> 0,
                               acc |-> IF out = "ok" /\ PassesDust(NativeToken(c, bal))
                                       THEN <<NativeToken(c, bal)>> ELSE <<>>,
                               due |-> rq[r].clock + BalancesCallTimeout(build)],
                          !.calls = @ \cup {<<"getTokenBalances", c>>}]]
    /\ UNCHANGED <<build, etherscanKey, net, quota, inputs, overlap, cache, fnArg, fnRet>>

\* alchemy_getTokenBalances settles; the first metadata batch is requested
BalancesSettle(r, c, out) ==
    /\ Pending(rq[r])
    /\ rq[r].chainF[c].pc = "balances"
    /\ out \in Outcomes(c, {"list"}, {"empty", "fail"})
    /\ Settles(rq[r], out, rq[r].chainF[c].due, BalancesCallTimeout(build))
    /\ rq' = [rq EXCEPT ![r] =
                IF out = "list" /\ nonZeroBalances(build, c) # <<>>
                THEN [@ EXCEPT !.chainF[c].pc = "meta", !.chainF[c].pos = 1,
                               !.chainF[c].due = rq[r].clock + MetadataCallTimeout(build),
                               !.calls = @ \cup {<<"getTokenMetadata", c>>}]
                ELSE FetcherReturn(rq[r], c, rq[r].chainF[c].acc)]
    /\ UNCHANGED <<build, etherscanKey, net, quota, inputs, overlap, cache, fnArg, fnRet>>

\* the tokens a settled batch yields: the entries whose metadata call
\* answered, not dust, in the order of the batch
RECURSIVE BatchTokens(_, _, _, _, _)
BatchTokens(c, list, from, to, ok) ==
    IF from > to THEN <<>>
    ELSE (IF from \in ok /\ PassesDust(Erc20Token(c, list[from]))
          THEN <<Erc20Token(c, list[from])>> ELSE <<>>)
         \o BatchTokens(c, list, from + 1, to, ok)

\* await Promise.all(batchPromises): every metadata call of the batch has
\* answered, failed or timed out; ok is the set of those that answered
MetaSettle(r, c, ok) ==
    LET f == rq[r].chainF[c]
        list == nonZeroBalances(build, c)
        last == Min(f.pos + BatchSize(build) - 1, Len(list))
        acc == f.acc \o BatchTokens(c, list, f.pos, last, ok)
    IN  /\ Pending(rq[r])
        /\ f.pc = "meta"
        /\ ok \subseteq f.pos..last
        /\ net[c] = "up" => ok = f.pos..last
        /\ net[c] \in {"down", "slow"} => ok = {}
        /\ \/ net[c] # "slow" /\ Prompt(rq[r], f.due, MetadataCallTimeout(build))
           \/ ok # f.pos..last /\ net[c] \in {"slow", "flaky"} /\ TimedOut(rq[r], f.due)
        /\ rq' = [rq EXCEPT ![r] =
                    IF last < Len(list)
                    THEN [@ EXCEPT !.chainF[c].acc = acc, !.chainF[c].pos = last + 1,
                                   !.chainF[c].due = rq[r].clock + MetadataCallTimeout(build)]
                    ELSE FetcherReturn(rq[r], c, acc)]
        /\ UNCHANGED <<build, etherscanKey, net, quota, inputs, overlap, cache, fnArg, fnRet>>

\* new Promise((resolve) => setTimeout(() => resolve([]), ...)) of a chain
ChainTimerFire(r, c) ==
    /\ rq[r].pc = "fetching"
    /\ rq[r].chainOut[c] = <<>>
    /\ Expired(rq[r], ChainDue(build, rq[r], c))
    /\ rq' = [rq EXCEPT ![r] = SettleChain(rq[r], c, <<>>, "timeout")]
    /\ UNCHANGED <<build, etherscanKey, net, quota, inputs, overlap, cache, fnArg, fnRet>>


(***************************************************************************)
(* fetchNFTsFast / fetchNFTsSafe and isSpamNFT                             *)
(***************************************************************************)
L_ensColon == <<"e","n","s",":"," ">>
L_lensProtocol == <<"l","e","n","s"," ","p","r","o","t","o","c","o","l">>
L_openseaShared == <<"o","p","e","n","s","e","a"," ","s","h","a","r","e","d">>
L_freeMint == <<"f","r","e","e"," ","m","i","n","t">>
L_sample == <<"s","a","m","p","l","e">>
L_VisitSpC == <<"V","i","s","i","t"," ">>
L_FreeSpC == <<"F","r","e","e"," ">>
L_ClaimSpC == <<"C","l","a","i","m"," ">>
KnownCollectionWords == { <<"E","N","S">>, <<"L","e","n","s">>, <<"P","O","A","P">>, <<"U","n","i","s","w","a","p">>, <<"C","r","y","p","t","o","P","u","n","k","s">>, <<"B","o","r","e","d"," ","A","p","e">>, <<"A","z","u","k","i">>, <<"D","o","o","d","l","e","s">>, <<"M","o","o","n","b","i","r","d","s">> }

\* SPAM_PATTERNS.nfts
isSpamNFT(name) ==
    LET l == toLowerCase(name) IN
    \/ startsWith(l, L_ensColon)
    \/ startsWith(l, L_lensProtocol)
    \/ startsWith(l, L_openseaShared)
    \/ includes(l, L_claim)
    \/ includes(l, L_freeMint)
    \/ includes(l, L_test)
    \/ includes(l, L_sample)

\* the items the grouping pass skips by their contract name
SkippedAtGrouping(b, name) ==
    IF b = "fast"
    THEN \/ includes(name, L_dotcom) \/ includes(name, L_VisitSpC)
         \/ includes(name, L_FreeSpC) \/ includes(name, L_ClaimSpC)
    ELSE includes(toLowerCase(name), L_visitSp) /\ includes(toLowerCase(name), L_dotcom)

\* the collections built from the indexer's answer, floor prices not yet known
RECURSIVE GroupNfts(_, _)
GroupNfts(b, owned) ==
    IF owned = <<>> THEN <<>>
    ELSE (IF SkippedAtGrouping(b, NftCatalog[Head(owned)].name) THEN <<>>
          ELSE <<[id |-> Head(owned), items |-> NftCatalog[Head(owned)].items,
                  floorPrice |-> 0, totalValue |-> 0]>>)
         \o GroupNfts(b, Tail(owned))

\* the floor-price answers that arrived before the race ended
WithFloors(cols, priced) ==
    [i \in 1..Len(cols) |->
        IF i \in priced /\ NftCatalog[cols[i].id].floor > 0
        THEN [cols[i] EXCEPT !.floorPrice = NftCatalog[cols[i].id].floor,
                             !.totalValue = NftCatalog[cols[i].id].floor * cols[i].items]
        ELSE cols[i]]

\* validCollections of the fast build
KeptCollection(col) ==
    \/ col.floorPrice > 0
    \/ col.items >= 5
    \/ \E w \in KnownCollectionWords : includes(NftCatalog[col.id].name, w)
    \/ NftCatalog[col.id].hasImage

\* a sorts before b
NftBefore(b, x, y) ==
    IF b = "fast" THEN x.totalValue > y.totalValue
    ELSE IF x.totalValue > 0 /\ y.totalValue = 0 THEN TRUE
    ELSE IF x.totalValue = 0 /\ y.totalValue > 0 THEN FALSE
    ELSE IF x.totalValue > 0 /\ y.totalValue > 0 THEN x.totalValue > y.totalValue
    ELSE x.items > y.items

\* validCollections.sort(...) / collections.sort(...), a stable sort: the
\* element at index i goes behind the elements that sort before it and
\* behind the earlier elements it does not sort before
SortNfts(b, s) ==
    LET place(i) == 1 + Cardinality({j \in 1..Len(s) :
                            \/ NftBefore(b, s[j], s[i])
                            \/ ~NftBefore(b, s[i], s[j]) /\ j < i})
    IN  [k \in 1..Len(s) |-> s[CHOOSE i \in 1..Len(s) : place(i) = k]]

\* what the NFT fetcher returns once the floor-price race is over
NftResult(b, cols) ==
    SortNfts(b, IF b = "fast" THEN SelectSeq(cols, KeptCollection) ELSE cols)

SettleNft(q, cols, how) ==
    IF q.nftOut = <<>> /\ q.pc = "fetching"
    THEN [q EXCEPT !.nftOut = <<[cols |-> cols, how |-> how]>>]
    ELSE q

NftReturn(q, cols) ==
    SettleNft([q EXCEPT !.nftF.pc = "returned", !.nftF.cols = cols], cols, "returned")

\* getNFTsForOwner settles; the floor-price calls are made
NftBulkSettle(r, out) ==
    /\ Pending(rq[r])
    /\ rq[r].nftF.pc = "bulk"
    /\ out \in Outcomes("nft", {"ok"}, {"empty", "fail"})
    /\ \/ Settles(rq[r], out, rq[r].nftF.due, NftCallTimeout(build))
       \/ net["nft"] = "late" /\ out = "ok" /\ ~TimedOut(rq[r], rq[r].nftF.due)
    /\ rq' = [rq EXCEPT ![r] =
                IF out = "ok" /\ GroupNfts(build, OwnedNfts) # <<>>
                THEN [@ EXCEPT !.nftF = [pc |-> "floor", cols |-> GroupNfts(build, OwnedNfts),
                                         bulk |-> "ok",
                                         due |-> rq[r].clock + Min(FloorCallTimeout(build),
                                                               FloorRaceTimeout(build))],
                               !.calls = @ \cup {<<"getFloorPrice">>}]
                ELSE NftReturn([rq[r] EXCEPT !.nftF.bulk = "failed"], <<>>)]
    /\ UNCHANGED <<build, etherscanKey, net, quota, inputs, overlap, cache, fnArg, fnRet>>

\* the race of the floor-price calls against its timer ends; priced is the
\* set of collections whose floor-price call had answered by then
NftFloorSettle(r, priced) ==
    LET f == rq[r].nftF IN
    /\ Pending(rq[r])
    /\ f.pc = "floor"
    /\ priced \subseteq 1..Len(f.cols)
    /\ net["nft"] = "up" => priced = 1..Len(f.cols)
    /\ net["nft"] \in {"down", "slow"} => priced = {}
    /\ \/ net["nft"] # "slow"
          /\ Prompt(rq[r], f.due, Min(FloorCallTimeout(build), FloorRaceTimeout(build)))
       \/ priced # 1..Len(f.cols) /\ net["nft"] \in {"slow", "flaky", "late"}
          /\ TimedOut(rq[r], f.due)
    /\ \E cols \in {NftResult(build, WithFloors(f.cols, priced))} :
           rq' = [rq EXCEPT ![r] = NftReturn(rq[r], cols)]
    /\ UNCHANGED <<build, etherscanKey, net, quota, inputs, overlap, cache, fnArg, fnRet>>

\* the timer raced against the NFT fetcher resolves with []
NftTimerFire(r) ==
    /\ rq[r].pc = "fetching"
    /\ rq[r].nftOut = <<>>
    /\ Expired(rq[r], rq[r].fetchStart + NftTimeout(build))
    /\ rq' = [rq EXCEPT ![r] = SettleNft(rq[r], <<>>, "timeout")]
    /\ UNCHANGED <<build, etherscanKey, net, quota, inputs, overlap, cache, fnArg, fnRet>>

(***************************************************************************)
(* fetchActivityFast / fetchActivitySafe                                   *)
(***************************************************************************)
\* a timer that resolves the activity branch with the provider's list
SettleActivityStale(q, items, how) ==
    IF q.actOut = <<>> /\ q.pc = "fetching"
    THEN [q EXCEPT !.actOut = <<[items |-> Transactions, how |-> how]>>]
    ELSE q

SettleActivity(q, items, how) ==
    IF q.actOut = <<>> /\ q.pc = "fetching"
    THEN [q EXCEPT !.actOut = <<[items |-> items, how |-> how]>>]
    ELSE q

\* a fetcher that maps whatever the explorer call left behind
ActivityItemsUnchecked(out) == Transactions

\* what fetchActivityFast returns: the mapped transactions when the call
\* answered with a list, [] from the catch or the final return otherwise
ActivityItems(out) == IF out = "ok" THEN Transactions ELSE <<>>

\* the explorer's txlist call settles
ActivitySettle(r, out) ==
    /\ Pending(rq[r])
    /\ rq[r].actF.pc = "call"
    /\ out \in Outcomes("explorer", {"ok"}, {"notlist", "fail"})
    /\ Settles(rq[r], out, rq[r].actF.due, ActivityCallTimeout(build))
    /\ rq' = [rq EXCEPT ![r] =
                SettleActivity([@ EXCEPT !.actF.pc = "returned",
                                         !.actF.call = IF out = "ok" THEN "ok" ELSE "failed"],
                               ActivityItems(out), "returned")]
    /\ UNCHANGED <<build, etherscanKey, net, quota, inputs, overlap, cache, fnArg, fnRet>>

\* the timer raced against the activity fetcher resolves with []
ActivityTimerFire(r) ==
    /\ rq[r].pc = "fetching"
    /\ rq[r].actOut = <<>>
    /\ Expired(rq[r], rq[r].fetchStart + ActivityTimeout(build))
    /\ rq' = [rq EXCEPT ![r] = SettleActivity(rq[r], <<>>, "timeout")]
    /\ UNCHANGED <<build, etherscanKey, net, quota, inputs, overlap, cache, fnArg, fnRet>>


(***************************************************************************)
(* Fan-in, spam filter and the start of the pricing pass                   *)
(***************************************************************************)
AllSettled(q) ==
    /\ \A c \in ChainSet : q.chainOut[c] # <<>>
    /\ q.nftOut # <<>>
    /\ q.actOut # <<>>

NotSpam(t) == ~IsSpam(build, t)

\* a fan-in that hands every fetched token to the pricing pass, unfiltered
CombineTokensUnfiltered(out) ==
    ConcatChains([c \in ChainSet |-> out[c][1].tokens], 1)

\* a fan-in that pushes the tokens of every chain twice
CombineTokensTwice(out) ==
    LET all == ConcatChains([c \in ChainSet |-> SelectSeq(out[c][1].tokens, NotSpam)], 1)
    IN  all \o all

\* a fan-in that gives up every chain's tokens when one chain has none
CombineTokensAllOrNothing(out) ==
    IF \E c \in ChainSet : out[c][1].tokens = <<>> THEN <<>>
    ELSE ConcatChains([c \in ChainSet |-> SelectSeq(out[c][1].tokens, NotSpam)], 1)

\* a fan-in that lists the chains in the reverse order
CombineTokensReversed(out) ==
    LET f == [c \in ChainSet |-> SelectSeq(out[c][1].tokens, NotSpam)]
        rev[i \in 0..Len(Chains)] == IF i = 0 THEN <<>> ELSE f[Chains[i]] \o rev[i - 1]
    IN  rev[Len(Chains)]

\* the tokens of every chain, in the order of the chain list, spam removed
CombineTokens(out) ==
    ConcatChains([c \in ChainSet |-> SelectSeq(out[c][1].tokens, NotSpam)], 1)

NftNotSpam(col) == ~isSpamNFT(NftCatalog[col.id].name)

\* validNFTs of the fast build; the safe build returns the fetcher's list
ValidNfts(b, cols) == IF b = "fast" THEN SelectSeq(cols, NftNotSpam) ELSE cols

\* Promise.all resolved: filter, then fetchPricesQuick / fetchPricesForTokens
\* is called and raced against the pricing budget
FanIn(r) ==
    /\ rq[r].pc = "fetching"
    /\ AllSettled(rq[r])
    /\ rq' = [rq EXCEPT ![r] =
                [@ EXCEPT !.pc = "pricing", !.fetchEnd = rq[r].clock,
                          !.live = CombineTokens(rq[r].chainOut),
                          !.nfts = ValidNfts(build, rq[r].nftOut[1].cols),
                          !.activity = rq[r].actOut[1].items,
                          !.priceF = [pc |-> "market", need |-> <<>>, pos |-> 0, market |-> "none",
                                      due |-> rq[r].clock + MarketCallTimeout(build)],
                          !.priceDue = rq[r].clock + PriceBudget(build),
                          !.calls = @ \cup {<<"simplePrice">>}]]
    /\ UNCHANGED <<build, etherscanKey, net, quota, inputs, overlap, cache, fnArg, fnRet>>

(***************************************************************************)
(* fetchPricesQuick (fast) and fetchPricesForTokens (safe)                 *)
(***************************************************************************)
\* what the market-data provider quotes
MarketData == [ethereum |-> 1800, matic |-> 1]

Stablecoins(b) ==
    IF b = "fast" THEN {S_USDC, S_USDT, S_DAI, S_BUSD, S_TUSD, S_USDD, S_FRAX}
    ELSE {S_USDC, S_USDT, S_DAI, S_BUSD, S_TUSD}

\* an update that sets the price and leaves usdValue as it was
SetPriceOnly(t, p) == [t EXCEPT !.price = p]

\* token.price = p; token.usdValue = parseFloat(token.balance) * p
SetPrice(t, p) == [t EXCEPT !.price = p, !.usdValue = t.balance * p]

\* the ETH price after the market answer: res.data.ethereum?.usd || 2000
EthPriceOf(out) == IF out = "full" THEN MarketData.ethereum ELSE EthFallbackPrice

\* fetchPricesQuick, try block: the three updates of the forEach body
PriceQuickOk(t, out) ==
    LET sym == TSymbol(t)
        nativePrice == IF sym = S_ETH THEN EthPriceOf(out)
                       ELSE IF sym = S_MATIC THEN MarketData.matic ELSE 0
        t1 == IF t.isNative /\ nativePrice # 0 THEN SetPrice(t, nativePrice) ELSE t
        t2 == IF sym \in Stablecoins("fast") THEN SetPrice(t1, 1) ELSE t1
    IN  IF sym = S_WETH THEN SetPrice(t2, EthPriceOf(out)) ELSE t2

\* fetchPricesQuick, catch block
PriceQuickFallback(t) ==
    IF TSymbol(t) = S_ETH THEN SetPrice(t, EthFallbackPrice) ELSE t

\* fetchPricesForTokens: native prices, then stablecoins
PriceSafeFirst(t, out) ==
    LET sym == TSymbol(t)
        t1 == IF sym = S_ETH \/ sym = S_WETH THEN SetPrice(t, EthPriceOf(out))
              ELSE IF sym = S_MATIC
                   THEN SetPrice(t, IF out \in {"full", "noEth"} THEN MarketData.matic
                                    ELSE MaticFallbackPrice)
              ELSE t
    IN  IF sym \in Stablecoins("safe") THEN SetPrice(t1, 1) ELSE t1

\* the pricing pass after the market-data call has settled with out
AfterMarket(b, tokens, out) ==
    [i \in 1..Len(tokens) |->
        IF b = "safe" THEN PriceSafeFirst(tokens[i], out)
        ELSE IF out \in {"full", "noEth"} THEN PriceQuickOk(tokens[i], out)
        ELSE PriceQuickFallback(tokens[i])]

TokenKey(t) == <<t.chain, t.id>>

\* a DEX lookup for every token that has a contract address
NeedsDexPriceAlways(t) == t.contract

NeedsDexPrice(t) == t.price = 0 /\ t.contract

\* tokensNeedingPrices of the safe build (the fast build has no DEX step)
TokensNeedingPrices(b, tokens) ==
    IF b = "safe"
    THEN [i \in 1..Len(SelectSeq(tokens, NeedsDexPrice)) |->
              TokenKey(SelectSeq(tokens, NeedsDexPrice)[i])]
    ELSE <<>>

\* what the pricing pass remembers of the market-data call
Answer(out) == IF out = "full" THEN "ok" ELSE IF out = "noEth" THEN "partial" ELSE "failed"

\* the coingecko call settles and the synchronous updates that follow it run
MarketSettle(r, out) ==
    LET f == rq[r].priceF IN
    /\ Pending(rq[r])
    /\ f.pc = "market"
    /\ out \in Outcomes("market", {"full"}, {"noEth", "fail"})
    /\ Settles(rq[r], out, f.due, MarketCallTimeout(build))
    /\ \E priced \in {AfterMarket(build, rq[r].live, out)} :
       \E need \in {TokensNeedingPrices(build, priced)} :
        /\ rq' = [rq EXCEPT ![r] =
                    [@ EXCEPT !.live = priced,
                              !.priceF = IF need = <<>>
                                         THEN [pc |-> "finished", need |-> <<>>, pos |-> 0,
                                               due |-> 0, market |-> Answer(out)]
                                         ELSE [pc |-> "dex", need |-> need, pos |-> 1, market |-> Answer(out),
                                               due |-> rq[r].clock + DexCallTimeout(build)],
                              !.calls = IF need = <<>> THEN @ ELSE @ \cup {<<"dexscreener">>}]]
        /\ UNCHANGED <<build, etherscanKey, net, quota, inputs, overlap, cache, fnArg, fnRet>>

\* one DexScreener call of the sequential loop settles
DexSettle(r, out) ==
    LET f == rq[r].priceF
        key == f.need[f.pos]
    IN  /\ Pending(rq[r])
        /\ f.pc = "dex"
        /\ out \in Outcomes("dex", {"pairs"}, {"nopairs", "fail"})
        /\ Settles(rq[r], out, f.due, DexCallTimeout(build))
        /\ rq' = [rq EXCEPT ![r] =
                    [@ EXCEPT
                        !.live = [i \in 1..Len(rq[r].live) |->
                                    IF TokenKey(rq[r].live[i]) = key /\ out = "pairs"
                                       /\ Erc20[key[2]].dexPrice # 0
                                    THEN SetPrice(rq[r].live[i], Erc20[key[2]].dexPrice)
                                    ELSE rq[r].live[i]],
                        !.priceF = IF f.pos = Len(f.need)
                                   THEN [f EXCEPT !.pc = "finished", !.need = <<>>, !.pos = 0, !.due = 0]
                                   ELSE [f EXCEPT !.pos = f.pos + 1,
                                                  !.due = rq[r].clock + DexCallTimeout(build)]]]
        /\ UNCHANGED <<build, etherscanKey, net, quota, inputs, overlap, cache, fnArg, fnRet>>


(***************************************************************************)
(* Totals, sort, response, cache store                                     *)
(***************************************************************************)
RECURSIVE SumItems(_)
SumItems(cols) == IF cols = <<>> THEN 0 ELSE Head(cols).items + SumItems(Tail(cols))

\* the chains whose fetch returned at least one token, in the order of CHAINS
RECURSIVE ChainsWithTokens(_, _)
ChainsWithTokens(out, i) ==
    IF i > Len(Chains) THEN <<>>
    ELSE (IF out[Chains[i]][1].tokens # <<>> THEN <<Chains[i]>> ELSE <<>>)
         \o ChainsWithTokens(out, i + 1)

OnChain(tokens, c) == SelectSeq(tokens, LAMBDA t : t.chain = c)

SeqToSet(s) == {s[i] : i \in 1..Len(s)}

\* responseData as it is serialized and cached
ResponseData(b, q) ==
    LET sorted == SortByValue(q.live)
        keys == ChainsWithTokens(q.chainOut, 1)
    IN  [ address |-> q.address,
          ensName |-> q.ensName,
          totalValue |-> SumUsd(q.live),
          tokens |-> sorted,
          tokensByChain |->
              IF b = "fast" THEN [c \in SeqToSet(keys) |-> OnChain(q.live, c)]
              ELSE [c \in ChainSet |-> OnChain(sorted, c)],
          nfts |-> q.nfts,
          activity |-> q.activity,
          tokenCount |-> Len(sorted),
          nftCount |-> SumItems(q.nfts),
          chainsWithBalance |-> IF b = "fast" THEN keys ELSE ChainsInOrder(sorted, {}),
          responseTime |-> q.clock ]

\* a store that keeps the entry a key already has
CacheSetIfAbsent(key, body) ==
    IF cache[key] # <<>> THEN cache
    ELSE [cache EXCEPT ![key] = <<[val |-> body, age |-> 0]>>]

\* a store that takes a result only when every chain contributed to it
CacheSetComplete(key, body) ==
    IF Len(body.chainsWithBalance) < Len(Chains) THEN cache
    ELSE [cache EXCEPT ![key] = <<[val |-> body, age |-> 0]>>]

\* cache.set(cacheKey, responseData, 300): the entry of the key is replaced
\* by a clone of the value, its TTL starts anew
CacheSet(key, body) == [cache EXCEPT ![key] = <<[val |-> body, age |-> 0]>>]

\* the race of the pricing pass against the budget timer is over
PricingOver(q) == q.priceF.pc = "finished" \/ Expired(q, q.priceDue)

\* totals, in-place sort, cache.set (which stores a clone) and res.json
Respond(r) ==
    /\ rq[r].pc = "pricing"
    /\ PricingOver(rq[r])
    /\ \E body \in {ResponseData(build, rq[r])} :
       /\ cache' = CacheSet(cacheKey(rq[r].input), body)
       /\ rq' = [rq EXCEPT ![r] =
                    [@ EXCEPT !.pc = "done", !.nresp = @ + 1, !.live = body.tokens,
                              !.priceCut = (rq[r].priceF.pc # "finished"),
                              !.chainF = IdleReq.chainF,
                              !.nftF = [IdleReq.nftF EXCEPT !.bulk = rq[r].nftF.bulk],
                              !.actF = [IdleReq.actF EXCEPT !.call = rq[r].actF.call],
                              !.priceF = IF rq[r].priceF.pc = "finished"
                                         THEN [IdleReq.priceF EXCEPT !.market = rq[r].priceF.market]
                                         ELSE [rq[r].priceF EXCEPT !.due = 0],
                              !.resp = [status |-> 200, error |-> "", body |-> <<body>>]]]
    /\ UNCHANGED <<build, etherscanKey, net, quota, inputs, overlap, fnArg, fnRet>>

\* a store that holds the token objects themselves: a write to the objects
\* shows in the stored value
CacheAfterWriteShared(key, tokens) ==
    IF cache[key] = <<>> THEN cache
    ELSE [cache EXCEPT ![key] = <<[cache[key][1] EXCEPT !.val.tokens = tokens]>>]

\* new NodeCache({ stdTTL: 300 }) clones on set and on get: a write to the
\* token objects after cache.set leaves the stored value as it is
CacheAfterWrite(key, tokens) == cache

\* the pricing pass that lost the race against the budget timer runs on
\* after the response: the market-data call settles with out (if it had not)
\* and the DEX calls left price the tokens in got; the writes go to the
\* token objects of the request
LateWrite(r, out, got) ==
    LET f == rq[r].priceF
        base == IF f.pc = "market" THEN AfterMarket(build, rq[r].live, out) ELSE rq[r].live
        need == IF f.pc = "market" THEN TokensNeedingPrices(build, base)
                ELSE SubSeq(f.need, f.pos, Len(f.need))
    IN  /\ rq[r].pc = "done"
        /\ rq[r].priceCut
        /\ f.pc \in {"market", "dex"}
        /\ IF f.pc = "market" THEN out \in Outcomes("market", {"full"}, {"noEth", "fail"})
           ELSE out = "fail"
        /\ got \subseteq SeqToSet(need)
        /\ net["dex"] = "up" => got = SeqToSet(need)
        /\ net["dex"] \in {"down", "slow"} => got = {}
        /\ \E tokens \in {[i \in 1..Len(base) |->
                               IF TokenKey(base[i]) \in got /\ Erc20[base[i].id].dexPrice # 0
                               THEN SetPrice(base[i], Erc20[base[i].id].dexPrice)
                               ELSE base[i]]} :
              /\ rq' = [rq EXCEPT ![r] =
                          [@ EXCEPT !.live = tokens,
                                    !.priceF = [IdleReq.priceF EXCEPT !.market = f.market]]]
              /\ cache' = CacheAfterWrite(cacheKey(rq[r].input), tokens)
        /\ UNCHANGED <<build, etherscanKey, net, quota, inputs, overlap, fnArg, fnRet>>

(***************************************************************************)
(* Time                                                                    *)
(***************************************************************************)
\* the deadlines of the timers and call timeouts a request is waiting on
Deadlines(q) ==
    CASE q.pc = "resolving" -> {q.ensDue}
      [] q.pc = "fetching" ->
            {ChainDue(build, q, c) : c \in {x \in ChainSet : q.chainOut[x] = <<>>}}
            \cup {q.chainF[c].due : c \in {x \in ChainSet : q.chainF[x].pc \in {"native", "balances", "meta"}}}
            \cup (IF q.nftOut = <<>> THEN {q.fetchStart + NftTimeout(build)} ELSE {})
            \cup (IF q.nftF.pc \in {"bulk", "floor"} THEN {q.nftF.due} ELSE {})
            \cup (IF q.nftF.pc = "bulk" /\ net["nft"] = "late" THEN {q.clock + 1} ELSE {})
            \cup (IF q.actOut = <<>> THEN {q.fetchStart + ActivityTimeout(build)} ELSE {})
            \cup (IF q.actF.pc = "call" THEN {q.actF.due} ELSE {})
      [] q.pc = "pricing" ->
            {q.priceDue} \cup (IF q.priceF.pc \in {"market", "dex"} THEN {q.priceF.due} ELSE {})
      [] OTHER -> {}

\* the providers a request is waiting for
Awaited(q) ==
    CASE q.pc = "resolving" -> {"ens"}
      [] q.pc = "fetching" ->
            {c \in ChainSet : q.chainF[c].pc \in {"native", "balances", "meta"}}
            \cup (IF q.nftF.pc \in {"bulk", "floor"} THEN {"nft"} ELSE {})
            \cup (IF q.actF.pc = "call" THEN {"explorer"} ELSE {})
      [] q.pc = "pricing" ->
            (IF q.priceF.pc = "market" THEN {"market"} ELSE {})
            \cup (IF q.priceF.pc = "dex" THEN {"dex"} ELSE {})
      [] OTHER -> {}

\* a continuation is ready to run, or the answer of a provider that answers
\* at once is due: no time passes before it
Runnable(q) ==
    \/ q.pc = "fetching" /\ AllSettled(q)
    \/ q.pc = "pricing" /\ q.priceF.pc = "finished"
    \/ \E p \in Awaited(q) : net[p] \in {"up", "down"}

Older(e, d) == IF e = <<>> THEN e ELSE <<[e[1] EXCEPT !.age = Min(@ + d, CacheTTL + 1)]>>

\* the seconds left until the earliest deadline of the requests in flight
Waits == UNION {{d - rq[r].clock : d \in Deadlines(rq[r])} : r \in {x \in Reqs : InFlight(x)}}

\* time passes while requests are in flight, up to the next deadline
Tick ==
    /\ \E r \in Reqs : InFlight(r)
    /\ \A r \in Reqs : InFlight(r) =>
            /\ ~Runnable(rq[r])
            /\ \A d \in Deadlines(rq[r]) : rq[r].clock < d
    /\ LET step == CHOOSE w \in Waits : \A x \in Waits : w <= x IN
       /\ rq' = [r \in Reqs |-> IF InFlight(r) THEN [rq[r] EXCEPT !.clock = @ + step] ELSE rq[r]]
       /\ cache' = [k \in CacheKeys |-> Older(cache[k], step)]
    /\ UNCHANGED <<build, etherscanKey, net, quota, inputs, overlap, fnArg, fnRet>>

\* the service is idle: time passes up to the last second at which the
\* oldest live entry is still served, and then one second more
IdleTick ==
    /\ \A r \in Reqs : ~InFlight(r)
    /\ \E k \in CacheKeys : CacheLive(k)
    /\ LET live == {k \in CacheKeys : CacheLive(k)}
           left(k) == IF cache[k][1].age < CacheTTL THEN CacheTTL - cache[k][1].age ELSE 1
           step == CHOOSE d \in {left(k) : k \in live} : \A k \in live : d <= left(k)
       IN  cache' = [k \in CacheKeys |->
                        IF cache[k] = <<>> THEN <<>>
                        ELSE <<[cache[k][1] EXCEPT !.age = Min(@ + step, CacheTTL + 1)]>>]
    /\ UNCHANGED <<build, etherscanKey, net, quota, inputs, overlap, rq, fnArg, fnRet>>

(***************************************************************************)
(* The classifiers as pure functions                                       *)
(***************************************************************************)
N_VisitUsdc == <<"V","i","s","i","t"," ","u","s","d","c",".","c","o","m">>
N_VisitUs == <<"V","i","s","i","t"," ","u","s">>
N_WwwClaim == <<"w","w","w",".","c","l","a","i","m",".","i","o">>
N_TestCoin == <<"T","e","s","t","N","e","t"," ","C","o","i","n">>
S_usdcLower == <<"u","s","d","c">>
S_XIO == <<"X",".","i","o">>

SampleNames == {N_VisitAirdrop, N_VisitUsdc, N_VisitUs, N_UsdCoin, N_Foo, N_WwwClaim,
                N_TestCoin, A_check}
SampleSymbols == {S_USDC, S_usdcLower, S_ETH, S_PEPE, S_FREE, S_FOO, S_XIO}
SampleValues == {0, Materiality, Materiality + 1}

SampleTokens == [name : SampleNames, symbol : SampleSymbols, usdValue : SampleValues]

\* both classifiers are applied to the token drawn by Init
Classify ==
    /\ fnRet = <<>>
    /\ fnArg # <<>>
    /\ fnRet' = <<[fast |-> isSpamToken(fnArg[1]), safe |-> isLikelySpamToken(fnArg[1])]>>
    /\ UNCHANGED <<build, etherscanKey, net, quota, inputs, overlap, cache, rq, fnArg>>

(***************************************************************************)
(* Earlier revisions as pure functions.  The enhanced revision (src/server.js *)
(* from line 739): dust filter of getAllTokensForChain and the token       *)
(* processing of its wallet handler.  The debugging revision               *)
(* (src/unnamed/part_001 from line 366): getCompleteTokenList.             *)
(***************************************************************************)
\* 0.000001 token, in units of 1e-10 token
V4Significant == 10000
\* 0.01 USD, in units of 1e-10 USD
V4ValueFloor == 100000000

\* getAllTokensForChain: the native balance is listed if above 0, an ERC-20
\* entry unless its formatted balance is below 0.000001
getAllTokensForChain(h) ==
    IF h.isNative THEN h.balance > 0 ELSE ~(h.balance < V4Significant)

\* the forEach body of the handler: price = prices[symbol] || 0, and the
\* token is pushed only if its balance or its value is significant
ProcessToken(h, price) ==
    LET usdValue == h.balance * price IN
    [ listed |-> (h.balance > V4Significant \/ usdValue > V4ValueFloor),
      price |-> price, usdValue |-> usdValue ]

\* getCompleteTokenList: the native balance is listed if above 0; an ERC-20
\* entry unless tokenBalance is '0x0' or parseFloat(balance) === 0.  The
\* handler of that revision returns every token the function lists.
getCompleteTokenList(h) == h.balance > 0

\* holdings and quotes (0: no price source knows the symbol)
SampleHoldings == [isNative : BOOLEAN, balance : {0, 1, 9, 10, 9999, 10000, 10001, 100000}]
SampleQuotes == {0, 1, 2000, 10000, 20000}

\* the holding drawn by Init goes through the dust filters of the fetchers
\* of each revision and through the enhanced revision's token processing
ProcessHolding ==
    /\ fnRet = <<>>
    /\ fnArg # <<>>
    /\ fnRet' = <<[ fetched |-> getAllTokensForChain(fnArg[1].holding),
                    out |-> ProcessToken(fnArg[1].holding, fnArg[1].quote),
                    fetcher |-> PassesDust(fnArg[1].holding),
                    complete |-> getCompleteTokenList(fnArg[1].holding) ]>>
    /\ UNCHANGED <<build, etherscanKey, net, quota, inputs, overlap, cache, rq, fnArg>>

L_ipfsScheme == <<"i","p","f","s",":","/","/">>
L_ipfsGateway == <<"h","t","t","p","s",":","/","/","i","p","f","s",".","i","o","/","i","p","f","s","/">>
L_httpsScheme == <<"h","t","t","p","s",":","/","/">>
U_ipfsA == <<"i","p","f","s",":","/","/","Q","m","A">>
U_ipfsB == <<"i","p","f","s",":","/","/","Q","m","B">>
U_httpsC == <<"h","t","t","p","s",":","/","/","c",".","i","o","/","1">>
CidA == <<"Q","m","A">>
CidB == <<"Q","m","B">>

\* the image fields of an item the fetcher of a revision looks at, in the
\* order of its || chain
ImageFields(rev) ==
    CASE rev = "fast" -> <<"thumbnailUrl", "cachedUrl", "rawMetadataImage">>
      [] rev = "safe" -> <<"thumbnailUrl", "cachedUrl", "originalUrl", "pngUrl", "jpegUrl",
                           "mediaThumbnail", "mediaGateway", "metadataImage", "metadataImageUrl">>
      [] OTHER -> <<"thumbnailUrl", "cachedUrl">>

\* a || b || ... || '': the first value that is not the empty string
RECURSIVE FirstNonEmpty(_, _)
FirstNonEmpty(item, fields) ==
    IF fields = <<>> THEN <<>>
    ELSE IF item[Head(fields)] # <<>> THEN item[Head(fields)]
    ELSE FirstNonEmpty(item, Tail(fields))

\* image and hasImage of the entry pushed for an item: the first candidate,
\* and `https://ipfs.io/ipfs/${image.slice(7)}` for an ipfs:// URI (the
\* fetcher of part_000 has no such conversion)
resolveImage(rev, item) ==
    LET first == FirstNonEmpty(item, ImageFields(rev))
        image == IF rev \in {"fast", "safe"} /\ first # <<>> /\ startsWith(first, L_ipfsScheme)
                 THEN L_ipfsGateway \o SubSeq(first, Len(L_ipfsScheme) + 1, Len(first))
                 ELSE first
    IN  [image |-> image, hasImage |-> image # <<>>]

\* items of the indexer: each of four image fields empty, an ipfs:// URI or
\* an https URL, the other fields empty
SampleItems ==
    {[f \in {"thumbnailUrl", "cachedUrl", "originalUrl", "pngUrl", "jpegUrl", "mediaThumbnail",
             "mediaGateway", "metadataImage", "metadataImageUrl", "rawMetadataImage"} |->
        CASE f = "thumbnailUrl" -> v[1]
          [] f = "cachedUrl" -> v[2]
          [] f = "originalUrl" -> v[3]
          [] f = "rawMetadataImage" -> v[4]
          [] OTHER -> <<>>] :
     v \in {<<>>, U_ipfsA, U_httpsC} \X {<<>>, U_ipfsB, U_httpsC} \X {<<>>, U_ipfsA}
            \X {<<>>, U_ipfsB}}

\* the item drawn by Init goes through the image resolution of the revision
ResolveItem ==
    /\ fnRet = <<>>
    /\ fnArg # <<>>
    /\ fnRet' = <<resolveImage(fnArg[1].rev, fnArg[1].item)>>
    /\ UNCHANGED <<build, etherscanKey, net, quota, inputs, overlap, cache, rq, fnArg>>

L_UnknownCollection == <<"U","n","k","n","o","w","n"," ","C","o","l","l","e","c","t","i","o","n">>

\* contracts of the indexer: address and contract name (two have none)
SampleContracts ==
    {[address |-> <<"0","x","a","1">>, name |-> N_Azuki], [address |-> <<"0","x","b","2">>, name |-> <<>>],
     [address |-> <<"0","x","c","3">>, name |-> <<>>], [address |-> <<"0","x","d","4">>, name |-> N_VisitAirdrop]}

MaxPage == 3

\* pages of the indexer: up to MaxPage items, each of a contract, with or
\* without an image; an item is known by its place in the page
SamplePages ==
    UNION {[1..n -> [contract : SampleContracts, hasImage : BOOLEAN]] : n \in 1..MaxPage}

\* the key under which a fetcher files an item: the contract address, and in
\* getNFTsFromAlternativeSource the contract name
CollectionKey(rev, contract) ==
    IF rev = "part_001"
    THEN (IF contract.name = <<>> THEN L_UnknownCollection ELSE contract.name)
    ELSE contract.address

\* the forEach over ownedNfts: an item skipped by its contract name is left
\* out, any other is pushed to the collection of its key, which is created at
\* the end of the list when absent
RECURSIVE GroupItems(_, _, _, _)
GroupItems(rev, page, i, cols) ==
    IF i > Len(page) THEN cols
    ELSE LET c == page[i].contract
             key == CollectionKey(rev, c)
             at == {k \in DOMAIN cols : cols[k].key = key}
         IN  IF rev # "part_001" /\ SkippedAtGrouping(rev, c.name)
             THEN GroupItems(rev, page, i + 1, cols)
             ELSE IF at = {}
             THEN GroupItems(rev, page, i + 1, Append(cols, [key |-> key, nfts |-> <<i>>]))
             ELSE GroupItems(rev, page, i + 1,
                             [k \in DOMAIN cols |->
                                 IF k \in at THEN [cols[k] EXCEPT !.nfts = Append(@, i)]
                                 ELSE cols[k]])

\* c.nfts.sort of part_002: items with an image before the others, the sort
\* being stable
SortByHasImage(page, nfts) ==
    SelectSeq(nfts, LAMBDA i : page[i].hasImage) \o SelectSeq(nfts, LAMBDA i : ~page[i].hasImage)

\* the item lists of the collections a fetcher builds from a page
groupPage(rev, page) ==
    LET cols == GroupItems(rev, page, 1, <<>>)
    IN  IF rev = "safe"
        THEN [k \in DOMAIN cols |-> [cols[k] EXCEPT !.nfts = SortByHasImage(page, @)]]
        ELSE cols

\* the page drawn by Init goes through the grouping of the revision
GroupPage ==
    /\ fnRet = <<>>
    /\ fnArg # <<>>
    /\ fnRet' = <<groupPage(fnArg[1].rev, fnArg[1].page)>>
    /\ UNCHANGED <<build, etherscanKey, net, quota, inputs, overlap, cache, rq, fnArg>>

\* the collections of a wallet: one or two of the catalogue, in either order
SampleOwned ==
    {<<a>> : a \in DOMAIN NftCatalog}
        \cup {<<p[1], p[2]>> : p \in {q \in (DOMAIN NftCatalog) \X (DOMAIN NftCatalog) : q[1] # q[2]}}

\* the indexer's answer drawn by Init goes through the NFT fetcher of the
\* build (grouping, floor prices, filter, sort) and the handler's filter
ListCollections ==
    /\ fnRet = <<>>
    /\ fnArg # <<>>
    /\ \E fetched \in {NftResult(build, WithFloors(GroupNfts(build, fnArg[1].owned),
                                                    fnArg[1].priced))} :
            fnRet' = <<[fetched |-> fetched, nfts |-> ValidNfts(build, fetched)]>>
    /\ UNCHANGED <<build, etherscanKey, net, quota, inputs, overlap, cache, rq, fnArg>>

\* staticPrices of getTokenPrice
StaticPrices ==
    [s \in {S_ETH, S_WETH, S_USDC, S_USDT, S_DAI, S_WBTC} |->
        IF s \in {S_ETH, S_WETH} THEN 2000 ELSE IF s = S_WBTC THEN 45000 ELSE 1]

\* a choice that takes the pair with the highest reported liquidity
DexPairPriceByLiquidity(pairs) ==
    IF pairs = <<>> THEN 0
    ELSE pairs[CHOOSE i \in DOMAIN pairs :
                    \A j \in DOMAIN pairs : pairs[j].liquidity <= pairs[i].liquidity].priceUsd

\* res.data?.pairs?.[0]?.priceUsd: the price of the first pair of the answer
DexPairPrice(pairs) == IF pairs = <<>> THEN 0 ELSE pairs[1].priceUsd

\* getTokenPrice(symbol, contractAddress) of the debugging revision, for the
\* answers one, dex and cg of 1inch, DexScreener and CoinGecko: the price
\* returned and the providers asked, in the order of the calls
getTokenPrice(symbol, hasContract, one, dex, cg) ==
    LET sym == toUpperCase(symbol)
        viaCg(asked) ==
            IF cg.out = "price"
            THEN [price |-> cg.usd, asked |-> Append(asked, "coingecko")]
            ELSE [price |-> 0, asked |-> Append(asked, "coingecko")]
    IN  IF sym \in DOMAIN StaticPrices
        THEN [price |-> StaticPrices[sym], asked |-> <<>>]
        ELSE IF ~hasContract THEN viaCg(<<>>)
        ELSE IF one.out = "price" /\ one.usd > 0
             THEN [price |-> one.usd, asked |-> <<"1inch">>]
        ELSE IF one.out # "fail" THEN viaCg(<<"1inch">>)
        ELSE IF dex.out = "pairs" /\ DexPairPrice(dex.pairs) # 0
             THEN [price |-> DexPairPrice(dex.pairs), asked |-> <<"1inch", "dexscreener">>]
        ELSE viaCg(<<"1inch", "dexscreener">>)

\* answers of the price providers
SampleOneInch ==
    {[out |-> "price", usd |-> 7], [out |-> "price", usd |-> 0],
     [out |-> "noprice", usd |-> 0], [out |-> "fail", usd |-> 0]}
SampleDex ==
    LET deep == [liquidity |-> 50, priceUsd |-> 4]
        thin == [liquidity |-> 10, priceUsd |-> 3]
    IN  {[out |-> "fail", pairs |-> <<>>], [out |-> "pairs", pairs |-> <<>>],
         [out |-> "pairs", pairs |-> <<thin>>], [out |-> "pairs", pairs |-> <<deep, thin>>],
         [out |-> "pairs", pairs |-> <<thin, deep>>]}
SampleCg == {[out |-> "price", usd |-> 9], [out |-> "none", usd |-> 0], [out |-> "fail", usd |-> 0]}

\* the token and the answers drawn by Init go through getTokenPrice, and the
\* DexScreener answer through the DEX step of fetchPricesForTokens
PriceToken ==
    /\ fnRet = <<>>
    /\ fnArg # <<>>
    /\ fnRet' = <<[ got |-> getTokenPrice(fnArg[1].symbol, fnArg[1].hasContract,
                                          fnArg[1].one, fnArg[1].dex, fnArg[1].cg),
                    loop |-> IF fnArg[1].dex.out = "pairs" THEN DexPairPrice(fnArg[1].dex.pairs)
                             ELSE 0 ]>>
    /\ UNCHANGED <<build, etherscanKey, net, quota, inputs, overlap, cache, rq, fnArg>>

\* token lists a chain's fetcher can return: the native entry first if the
\* wallet holds more than dust of it, then ERC-20 entries in provider order
SampleChainLists(c) ==
    LET N == NativeToken(c, 100000)
        U == Erc20Token(c, "usdc")
        F == Erc20Token(c, "free")
    IN  {<<>>, <<N>>, <<F>>, <<N, F>>, <<U, F>>, <<F, U>>, <<N, U>>, <<N, U, F>>}

\* the results of the chain fetchers drawn by Init go through the fan-in
\* filter and the assembly of responseData
AssembleResponse ==
    /\ fnRet = <<>>
    /\ fnArg # <<>>
    /\ fnRet' = <<ResponseData(build, [IdleReq EXCEPT !.chainOut = fnArg[1],
                                                      !.live = CombineTokens(fnArg[1])])>>
    /\ UNCHANGED <<build, etherscanKey, net, quota, inputs, overlap, cache, rq, fnArg>>

(***************************************************************************)
(* One chain's token fetcher, call by call, in each revision:              *)
(* fetchChainTokensFast ("fast"), fetchTokensSafe ("safe"),                *)
(* getAllTokensForChain ("enhanced"), getCompleteTokenList ("debugging").  *)
(* fnArg holds what the providers will answer, fnRet the fetcher's locals. *)
(***************************************************************************)
MaxBalances == 11

\* what the providers answer to one run of a fetcher: the native-balance
\* call, the token-balance listing with n entries, and entry bad (0: none)
\* whose metadata call fails, has no result, or has a result without symbol
SampleRuns ==
    [ rev : {"fast", "safe", "enhanced", "debugging"}, n : {0, 2, 6, MaxBalances},
      native : {"ok", "fail", "timeout"}, listing : {"list", "fail"},
      bad : {0, 2}, how : {"fail", "noMeta", "noSymbol"} ]

\* the answer to the metadata call of entry i
MetaOutcome(run, i) == IF i = run.bad THEN run.how ELSE "ok"

\* the metadata calls the fetcher starts together: a slice of batchSize
\* entries, the whole list in getAllTokensForChain, one entry in the for
\* loop of getCompleteTokenList
FetcherBatchSize(rev, n) ==
    CASE rev \in Builds -> BatchSize(rev)
      [] rev = "enhanced" -> n
      [] OTHER -> 1

BatchOf(run, pos) == pos..Min(pos + FetcherBatchSize(run.rev, run.n) - 1, run.n)

\* what the callback of one entry returns: <<>> for null, else the token
TokenOfEntry(rev, i, out) ==
    CASE out \in {"fail", "noMeta"} -> <<>>
      [] out = "noSymbol" ->
            (CASE rev \in Builds -> <<[kind |-> "erc20", entry |-> i, symbol |-> "UNKNOWN"]>>
               [] rev = "enhanced" -> <<>>
               [] OTHER -> <<[kind |-> "erc20", entry |-> i, symbol |-> "???"]>>)
      [] OTHER -> <<[kind |-> "erc20", entry |-> i, symbol |-> "SYM"]>>

\* results.filter(t => t !== null) of the entries from..to, in their order
RECURSIVE BatchResults(_, _, _)
BatchResults(run, from, to) ==
    IF from > to THEN <<>>
    ELSE TokenOfEntry(run.rev, from, MetaOutcome(run, from)) \o BatchResults(run, from + 1, to)

FetcherStart == [pc |-> "native", tokens |-> <<>>, pos |-> 0, got |-> {}, threw |-> FALSE]

\* the metadata calls that have been started and have not settled
CallsInFlight ==
    IF fnRet # <<>> /\ fnRet[1].pc = "meta" THEN BatchOf(fnArg[1], fnRet[1].pos) \ fnRet[1].got ELSE {}

\* provider.getBalance settles.  The two builds race it against a timer and
\* have a try of its own around it; the earlier revisions await it bare,
\* inside the one try of the function
NativeReturn ==
    LET run == fnArg[1]
        f == fnRet[1]
        native == <<[kind |-> "native", entry |-> 0, symbol |-> "ETH"]>>
    IN  /\ fnArg # <<>> /\ fnRet # <<>>
        /\ f.pc = "native"
        /\ run.native = "timeout" => run.rev \in Builds
        /\ fnRet' = <<CASE run.native = "ok" -> [f EXCEPT !.pc = "balances", !.tokens = native]
                        [] run.rev \in Builds -> [f EXCEPT !.pc = "balances"]
                        [] OTHER -> [f EXCEPT !.pc = "returned", !.tokens = <<>>]>>
        /\ UNCHANGED <<build, etherscanKey, net, quota, inputs, overlap, cache, rq, fnArg>>

\* alchemy_getTokenBalances settles: the first metadata calls are started,
\* or the fetcher returns (getAllTokensForChain returns [] from its catch)
ListingReturn ==
    LET run == fnArg[1]
        f == fnRet[1]
    IN  /\ fnArg # <<>> /\ fnRet # <<>>
        /\ f.pc = "balances"
        /\ fnRet' = <<CASE run.listing = "list" /\ run.n > 0 -> [f EXCEPT !.pc = "meta", !.pos = 1]
                        [] run.listing = "list" -> [f EXCEPT !.pc = "returned"]
                        [] run.rev = "enhanced" -> [f EXCEPT !.pc = "returned", !.tokens = <<>>]
                        [] OTHER -> [f EXCEPT !.pc = "returned"]>>
        /\ UNCHANGED <<build, etherscanKey, net, quota, inputs, overlap, cache, rq, fnArg>>

\* one metadata call settles; when it is the last of those started together,
\* Promise.all resolves, the tokens are pushed, and the next calls are
\* started or the fetcher returns
CallReturn(i) ==
    LET run == fnArg[1]
        f == fnRet[1]
        batch == BatchOf(run, f.pos)
        last == Min(f.pos + FetcherBatchSize(run.rev, run.n) - 1, run.n)
    IN  /\ fnArg # <<>> /\ fnRet # <<>>
        /\ f.pc = "meta"
        /\ i \in batch \ f.got
        /\ fnRet' = <<IF f.got \cup {i} # batch THEN [f EXCEPT !.got = @ \cup {i}]
                      ELSE [f EXCEPT !.tokens = @ \o BatchResults(run, f.pos, last),
                                     !.got = {},
                                     !.pos = IF last < run.n THEN last + 1 ELSE f.pos,
                                     !.pc = IF last < run.n THEN "meta" ELSE "returned"]>>
        /\ UNCHANGED <<build, etherscanKey, net, quota, inputs, overlap, cache, rq, fnArg>>

FetchStep ==
    \/ NativeReturn
    \/ ListingReturn
    \/ \E i \in 1..MaxBalances + 1 : CallReturn(i)


(***************************************************************************)
(* getCachedData of the enhanced revision (src/server.js:818-834) and of   *)
(* the debugging revision (src/unnamed/part_001:53-64), one call.  fnArg   *)
(* holds the call and what fetchFunction will do, fnRet the locals of the  *)
(* call and the entry of the key.                                          *)
(***************************************************************************)
StdTTL == 300

\* values a fetch function settles with, and JavaScript's truthiness of them
V_list == [type |-> "array", len |-> 2]
V_empty == [type |-> "array", len |-> 0]
V_zero == [type |-> "number", num |-> 0]
V_price == [type |-> "number", num |-> 2000]
V_null == [type |-> "null"]
V_undefined == [type |-> "undefined"]

Truthy(v) ==
    CASE v.type = "array" -> TRUE
      [] v.type = "number" -> v.num # 0
      [] OTHER -> FALSE

\* cache.get(key): the value of a live entry, undefined otherwise
NodeCacheGet(entry) ==
    IF entry # <<>> /\ entry[1].age <= entry[1].ttl THEN entry[1].val ELSE V_undefined

\* the entries the key can have when getCachedData is called: none, or one
\* stored by an earlier call of the same revision, live or expired
StoredEntries(rev) ==
    {<<>>} \cup
    {<<[val |-> v, ttl |-> t, age |-> a]>> :
        v \in {x \in {V_list, V_empty, V_zero, V_null} : rev = "debugging" \/ Truthy(x)},
        t \in (IF rev = "debugging" THEN {StdTTL} ELSE {PriceCacheTTL, StdTTL}),
        a \in {0, StdTTL + 1}}

SampleCalls ==
    {[rev |-> rev, entry |-> e, ttl |-> t, settles |-> o] :
        rev \in {"enhanced", "debugging"}, e \in StoredEntries("debugging"),
        t \in {PriceCacheTTL, StdTTL},
        o \in {[how |-> "value", val |-> v] : v \in {V_list, V_empty, V_zero, V_price, V_null}}
              \cup {[how |-> "throw", val |-> V_undefined]}}

\* const cached = cache.get(key); if (cached) return cached; otherwise
\* fetchFunction is called and awaited
CachedLookup ==
    LET f == fnRet[1]
        cached == NodeCacheGet(f.store)
    IN  /\ fnArg # <<>> /\ fnRet # <<>>
        /\ f.pc = "start"
        /\ fnRet' = <<IF Truthy(cached)
                      THEN [f EXCEPT !.pc = "returned", !.ret = cached]
                      ELSE [f EXCEPT !.pc = "awaiting", !.calls = @ + 1,
                                     !.store = IF cached = V_undefined THEN <<>> ELSE @]>>
        /\ UNCHANGED <<build, etherscanKey, net, quota, inputs, overlap, cache, rq, fnArg>>

\* fetchFunction settles.  The enhanced revision stores a truthy value with
\* the ttl of the call and turns a rejection into null; the debugging
\* revision stores whatever it got and lets a rejection through
CachedSettle ==
    LET f == fnRet[1]
        call == fnArg[1]
        o == call.settles
    IN  /\ fnArg # <<>> /\ fnRet # <<>>
        /\ f.pc = "awaiting"
        /\ fnRet' = <<CASE o.how = "throw" /\ call.rev = "enhanced" ->
                             [f EXCEPT !.pc = "returned", !.ret = V_null]
                        [] o.how = "throw" ->
                             [f EXCEPT !.pc = "returned", !.threw = TRUE]
                        [] call.rev = "enhanced" ->
                             [f EXCEPT !.pc = "returned", !.ret = o.val,
                                       !.store = IF Truthy(o.val)
                                                 THEN <<[val |-> o.val, ttl |-> call.ttl, age |-> 0]>>
                                                 ELSE @]
                        [] OTHER ->
                             [f EXCEPT !.pc = "returned", !.ret = o.val,
                                       !.store = <<[val |-> o.val, ttl |-> StdTTL, age |-> 0]>>]>>
        /\ UNCHANGED <<build, etherscanKey, net, quota, inputs, overlap, cache, rq, fnArg>>

CachedStep == CachedLookup \/ CachedSettle


(***************************************************************************)
(* Specifications                                                          *)
(***************************************************************************)
InitService ==
    /\ build \in Builds
    /\ etherscanKey \in BOOLEAN
    /\ cache = [k \in CacheKeys |-> <<>>]
    /\ rq = [r \in Reqs |-> IdleReq]

Serve ==
    \/ \E r \in Reqs, in \in AllInputs : Arrive(r, in)
    \/ \E r \in Reqs, out \in {"address", "null", "fail"} : EnsSettle(r, out)
    \/ \E r \in Reqs : EnsTimerFire(r)
    \/ \E r \in Reqs, c \in ChainSet, out \in {"ok", "fail", "timeout"}, bal \in NativeBalances :
            NativeSettle(r, c, out, bal)
    \/ \E r \in Reqs, c \in ChainSet, out \in {"list", "empty", "fail", "timeout"} :
            BalancesSettle(r, c, out)
    \/ \E r \in Reqs, c \in ChainSet : \E ok \in SUBSET (1..Len(TokenBalances(c))) : MetaSettle(r, c, ok)
    \/ \E r \in Reqs, c \in ChainSet : ChainTimerFire(r, c)
    \/ \E r \in Reqs, out \in {"ok", "empty", "fail", "timeout"} : NftBulkSettle(r, out)
    \/ \E r \in Reqs, priced \in SUBSET (1..Len(OwnedNfts)) : NftFloorSettle(r, priced)
    \/ \E r \in Reqs : NftTimerFire(r)
    \/ \E r \in Reqs, out \in {"ok", "notlist", "fail", "timeout"} : ActivitySettle(r, out)
    \/ \E r \in Reqs : ActivityTimerFire(r)
    \/ \E r \in Reqs : FanIn(r)
    \/ \E r \in Reqs, out \in {"full", "noEth", "fail", "timeout"} : MarketSettle(r, out)
    \/ \E r \in Reqs, out \in {"pairs", "nopairs", "fail", "timeout"} : DexSettle(r, out)
    \/ \E r \in Reqs : Respond(r)
    \/ \E r \in Reqs, out \in {"full", "noEth", "fail", "timeout"} :
            \E got \in SUBSET {TokenKey(rq[r].live[i]) : i \in DOMAIN rq[r].live} :
                LateWrite(r, out, got)
    \/ Tick
    \/ IdleTick

\* one request; each chain's provider is up, down or slow, every other
\* provider may do anything
Init ==
    /\ InitService
    /\ \E m \in [ChainSet -> {"up", "down", "slow"}] :
            net = [p \in Providers |-> IF p \in ChainSet THEN m[p] ELSE "flaky"]
    /\ quota = 1
    /\ inputs = {A_check, A_badsum, I_bad, I_ens}
    /\ overlap = FALSE
    /\ fnArg = <<>>
    /\ fnRet = <<>>

Next == Serve

Spec == Init /\ [][Next]_vars

\* several requests, one after the other, for one wallet written in two
\* ways and for a name; the providers are all up, or all slow, or all up
\* but the last chain's
InitCache ==
    /\ InitService
    /\ etherscanKey
    /\ \/ \E m \in {"up", "slow"} : net = [p \in Providers |-> m]
       \/ net = [p \in Providers |-> IF p = Chains[Len(Chains)] THEN "slow" ELSE "up"]
    /\ quota = NumReq
    /\ inputs = {A_lower, A_badsum, I_ens}
    /\ overlap = FALSE
    /\ fnArg = <<>>
    /\ fnRet = <<>>

SpecCache == InitCache /\ [][Next]_vars

\* two requests for one wallet that may overlap: the first chain and the DEX
\* answer at once, the market-data provider may answer, fail or stay silent,
\* the other providers fail at once; or the requests come one after the
\* other as above
InitOverlap ==
    \/ InitCache
    \/ /\ InitService
       /\ etherscanKey
       /\ net = [p \in Providers |-> CASE p = "market" -> "flaky"
                                         [] p \in {Chains[1], "dex"} -> "up"
                                         [] OTHER -> "down"]
       /\ quota = 2
       /\ inputs = {A_check}
       /\ overlap = TRUE
       /\ fnArg = <<>>
       /\ fnRet = <<>>

SpecOverlap == InitOverlap /\ [][Next]_vars

\* what the event loop does for the requests in flight without any provider
\* answering: timers and call timeouts fire and ready continuations run
Ready ==
    \/ \E r \in Reqs, out \in {"address", "null", "fail"} : EnsSettle(r, out)
    \/ \E r \in Reqs : EnsTimerFire(r)
    \/ \E r \in Reqs, c \in ChainSet, out \in {"ok", "fail", "timeout"}, bal \in NativeBalances :
            NativeSettle(r, c, out, bal)
    \/ \E r \in Reqs, c \in ChainSet, out \in {"list", "empty", "fail", "timeout"} :
            BalancesSettle(r, c, out)
    \/ \E r \in Reqs, c \in ChainSet : \E ok \in SUBSET (1..Len(TokenBalances(c))) : MetaSettle(r, c, ok)
    \/ \E r \in Reqs, c \in ChainSet : ChainTimerFire(r, c)
    \/ \E r \in Reqs, out \in {"ok", "empty", "fail", "timeout"} : NftBulkSettle(r, out)
    \/ \E r \in Reqs, priced \in SUBSET (1..Len(OwnedNfts)) : NftFloorSettle(r, priced)
    \/ \E r \in Reqs : NftTimerFire(r)
    \/ \E r \in Reqs, out \in {"ok", "notlist", "fail", "timeout"} : ActivitySettle(r, out)
    \/ \E r \in Reqs : ActivityTimerFire(r)
    \/ \E r \in Reqs : FanIn(r)
    \/ \E r \in Reqs, out \in {"full", "noEth", "fail", "timeout"} : MarketSettle(r, out)
    \/ \E r \in Reqs, out \in {"pairs", "nopairs", "fail", "timeout"} : DexSettle(r, out)
    \/ \E r \in Reqs : Respond(r)

\* one request; the chains' providers are all up or all slow, every other
\* provider may do anything
InitLive ==
    /\ InitService
    /\ etherscanKey
    /\ \E m \in {"up", "slow"} :
            net = [p \in Providers |-> IF p \in ChainSet THEN m ELSE "flaky"]
    /\ quota = 1
    /\ inputs = {A_check, I_bad, I_ens}
    /\ overlap = FALSE
    /\ fnArg = <<>>
    /\ fnRet = <<>>

\* the event loop keeps running and time keeps passing; nothing makes a
\* provider answer: whenever no time can pass, a timer, a call timeout or a
\* continuation is ready
SpecLive == InitLive /\ [][Next]_vars /\ WF_vars(Tick) /\ WF_vars(Ready)

\* the token classifiers on sample tokens
InitSpam ==
    /\ build = "fast"
    /\ etherscanKey = TRUE
    /\ net = [p \in Providers |-> "up"]
    /\ quota = 0
    /\ inputs = {}
    /\ overlap = FALSE
    /\ cache = [k \in CacheKeys |-> <<>>]
    /\ rq = [r \in Reqs |-> IdleReq]
    /\ fnArg \in {<<t>> : t \in SampleTokens}
    /\ fnRet = <<>>

SpecSpam == InitSpam /\ [][Classify]_vars


\* the dust filters and the token processing on sample holdings and quotes
InitHoldings ==
    /\ build = "fast"
    /\ etherscanKey = TRUE
    /\ net = [p \in Providers |-> "up"]
    /\ quota = 0
    /\ inputs = {}
    /\ overlap = FALSE
    /\ cache = [k \in CacheKeys |-> <<>>]
    /\ rq = [r \in Reqs |-> IdleReq]
    /\ fnArg \in {<<[holding |-> h, quote |-> p]>> : h \in SampleHoldings, p \in SampleQuotes}
    /\ fnRet = <<>>

SpecHoldings == InitHoldings /\ [][ProcessHolding]_vars

\* one request as above, or one request for the wallet while the NFT indexer
\* answers late and every other provider at once
InitLate ==
    \/ Init
    \/ /\ InitService
       /\ net = [p \in Providers |-> IF p = "nft" THEN "late" ELSE "up"]
       /\ quota = 1
       /\ inputs = {A_check}
       /\ overlap = FALSE
       /\ fnArg = <<>>
       /\ fnRet = <<>>

SpecLate == InitLate /\ [][Next]_vars

\* one request as above, or one request for the wallet while the first
\* chain's provider may answer, refuse or stay silent call by call
InitCut ==
    \/ Init
    \/ /\ InitService
       /\ net = [p \in Providers |-> IF p = Chains[1] THEN "flaky" ELSE "up"]
       /\ quota = 1
       /\ inputs = {A_check}
       /\ overlap = FALSE
       /\ fnArg = <<>>
       /\ fnRet = <<>>

SpecCut == InitCut /\ [][Next]_vars

\* the NFT fetcher and filter of each build over wallets of one or two
\* collections, each floor-price call answering in time or not
InitNftList ==
    /\ build \in Builds
    /\ etherscanKey = TRUE
    /\ net = [p \in Providers |-> "up"]
    /\ quota = 0
    /\ inputs = {}
    /\ overlap = FALSE
    /\ cache = [k \in CacheKeys |-> <<>>]
    /\ rq = [r \in Reqs |-> IdleReq]
    /\ \E o \in SampleOwned : \E pr \in SUBSET (1..Len(o)) :
            /\ pr \subseteq 1..Len(GroupNfts(build, o))
            /\ fnArg = <<[owned |-> o, priced |-> pr]>>
    /\ fnRet = <<>>

SpecNftList == InitNftList /\ [][ListCollections]_vars

\* the providers that were silent or refusing answer again; followed while
\* the service is idle and holds a result
Recover ==
    /\ \E p \in Providers : net[p] \in {"slow", "down"}
    /\ \A r \in Reqs : ~InFlight(r)
    /\ \E k \in CacheKeys : cache[k] # <<>>
    /\ net' = [p \in Providers |-> "up"]
    /\ UNCHANGED <<build, etherscanKey, quota, inputs, overlap, cache, rq, fnArg, fnRet>>

\* two sequential requests, one before and one after providers that were
\* silent at first have recovered
InitRecover ==
    /\ InitService
    /\ etherscanKey
    /\ \/ net = [p \in Providers |-> "slow"]
       \/ net = [p \in Providers |-> IF p = Chains[Len(Chains)] THEN "slow" ELSE "up"]
    /\ quota = 2
    /\ inputs = {A_lower, A_badsum, I_ens}
    /\ overlap = FALSE
    /\ fnArg = <<>>
    /\ fnRet = <<>>

SpecRecover == InitRecover /\ [][Next \/ Recover]_vars

\* the image resolution of the three NFT fetchers over sampled items
InitImage ==
    /\ build = "fast"
    /\ etherscanKey = TRUE
    /\ net = [p \in Providers |-> "up"]
    /\ quota = 0
    /\ inputs = {}
    /\ overlap = FALSE
    /\ cache = [k \in CacheKeys |-> <<>>]
    /\ rq = [r \in Reqs |-> IdleReq]
    /\ fnArg \in {<<[rev |-> v, item |-> i]>> : v \in {"fast", "safe", "part_000"}, i \in SampleItems}
    /\ fnRet = <<>>

SpecImage == InitImage /\ [][ResolveItem]_vars

\* the grouping of the three NFT fetchers over sampled pages
InitGroup ==
    /\ build = "fast"
    /\ etherscanKey = TRUE
    /\ net = [p \in Providers |-> "up"]
    /\ quota = 0
    /\ inputs = {}
    /\ overlap = FALSE
    /\ cache = [k \in CacheKeys |-> <<>>]
    /\ rq = [r \in Reqs |-> IdleReq]
    /\ fnArg \in {<<[rev |-> v, page |-> p]>> : v \in {"fast", "safe", "part_001"}, p \in SamplePages}
    /\ fnRet = <<>>

SpecGroup == InitGroup /\ [][GroupPage]_vars

\* one run of a chain token fetcher of each revision
InitFetch ==
    /\ build = "fast"
    /\ etherscanKey = TRUE
    /\ net = [p \in Providers |-> "up"]
    /\ quota = 0
    /\ inputs = {}
    /\ overlap = FALSE
    /\ cache = [k \in CacheKeys |-> <<>>]
    /\ rq = [r \in Reqs |-> IdleReq]
    /\ fnArg \in {<<run>> : run \in {x \in SampleRuns : x.bad = 0 => x.how = "fail"}}
    /\ fnRet = <<FetcherStart>>

SpecFetch == InitFetch /\ [][FetchStep]_vars

\* one call of getCachedData of each revision
InitWrap ==
    /\ build = "fast"
    /\ etherscanKey = TRUE
    /\ net = [p \in Providers |-> "up"]
    /\ quota = 0
    /\ inputs = {}
    /\ overlap = FALSE
    /\ cache = [k \in CacheKeys |-> <<>>]
    /\ rq = [r \in Reqs |-> IdleReq]
    /\ fnArg \in {<<c>> : c \in {x \in SampleCalls : x.entry \in StoredEntries(x.rev)}}
    /\ fnRet = <<[pc |-> "start", calls |-> 0, ret |-> V_undefined, threw |-> FALSE,
                  store |-> fnArg[1].entry]>>

SpecWrap == InitWrap /\ [][CachedStep]_vars

\* getTokenPrice over tokens and provider answers of every kind
InitPrice ==
    /\ build = "safe"
    /\ etherscanKey = TRUE
    /\ net = [p \in Providers |-> "up"]
    /\ quota = 0
    /\ inputs = {}
    /\ overlap = FALSE
    /\ cache = [k \in CacheKeys |-> <<>>]
    /\ rq = [r \in Reqs |-> IdleReq]
    /\ fnArg \in {<<[symbol |-> s, hasContract |-> h, one |-> o, dex |-> d, cg |-> g]>> :
                    s \in {S_usdcLower, S_FOO}, h \in BOOLEAN, o \in SampleOneInch,
                    d \in SampleDex, g \in SampleCg}
    /\ fnRet = <<>>

SpecPrice == InitPrice /\ [][PriceToken]_vars

\* the fan-in and responseData of each build over chain results of every shape
InitAssemble ==
    /\ build \in Builds
    /\ etherscanKey = TRUE
    /\ net = [p \in Providers |-> "up"]
    /\ quota = 0
    /\ inputs = {}
    /\ overlap = FALSE
    /\ cache = [k \in CacheKeys |-> <<>>]
    /\ rq = [r \in Reqs |-> IdleReq]
    /\ \E lists \in [ChainSet -> UNION {SampleChainLists(c) : c \in ChainSet}] :
            /\ \A c \in ChainSet : lists[c] \in SampleChainLists(c)
            /\ fnArg = <<[c \in ChainSet |-> <<[tokens |-> lists[c], how |-> "returned"]>>]>>
    /\ fnRet = <<>>

SpecAssemble == InitAssemble /\ [][AssembleResponse]_vars


(***************************************************************************)
(* Properties                                                              *)
(***************************************************************************)
Done(r) == rq[r].pc = "done"

\* the request ran the pipeline to its end and was answered with 200
Served(r) == Done(r) /\ ~rq[r].hit /\ rq[r].resp.status = 200

Body(r) == rq[r].resp.body[1]

\* C1: a request that finds a live cache entry is answered 200 with exactly
\* the result an earlier request for the same key computed and stored, the
\* responseTime included, and makes no upstream call; and a request that
\* arrives while the entry of its key is live is answered from the cache,
\* which it leaves as it is.
C1_CacheHitSameResult ==
    /\ [](\A r \in Reqs : rq[r].hit =>
            /\ rq[r].calls = {}
            /\ Done(r)
            /\ rq[r].resp.status = 200
            /\ \E p \in Reqs :
                 /\ p < r
                 /\ Served(p)
                 /\ cacheKey(rq[p].input) = cacheKey(rq[r].input)
                 /\ rq[r].resp.body = rq[p].resp.body)
    /\ [][\A r \in Reqs :
            (rq[r].pc = "idle" /\ rq'[r].pc # "idle"
                /\ cache[cacheKey(rq'[r].input)] # <<>>
                /\ cache[cacheKey(rq'[r].input)][1].age <= CacheTTL)
            => (rq'[r].hit /\ rq'[r].calls = {} /\ cache' = cache)]_vars

\* a request was answered from the cache with a result that took time and
\* lists tokens
C1_Witness ==
    \E r \in Reqs : rq[r].hit /\ Body(r).responseTime > 0 /\ Body(r).tokens # <<>>

\* the requests whose input is no name and no valid address
Malformed(r) ==
    rq[r].pc # "idle" /\ ~isEnsName(rq[r].input) /\ ~isAddress(rq[r].input)

\* C4 as stated: a request whose input is no name and fails validation is
\* answered with 400 and makes no upstream call.
C4_Invalid400 ==
    \A r \in Reqs : Malformed(r) =>
        Done(r) /\ rq[r].resp.status = 400 /\ rq[r].calls = {}

\* C4, amended: such a request makes no upstream call and is answered at
\* once: from the cache with 200 when the cache holds a live entry under the
\* lowercased input, with 400 "Invalid Ethereum address" otherwise.
C4_Invalid400UnlessCached ==
    \A r \in Reqs : Malformed(r) =>
        /\ Done(r)
        /\ rq[r].calls = {}
        /\ IF rq[r].hit
           THEN rq[r].resp.status = 200
           ELSE rq[r].resp.status = 400 /\ rq[r].resp.error = "Invalid Ethereum address"

\* the wrongly checksummed address was refused although an earlier request
\* for the same wallet had been served
C4_Witness ==
    \E r, p \in Reqs :
        /\ p < r /\ Served(p) /\ cacheKey(rq[p].input) = cacheKey(rq[r].input)
        /\ rq[r].input = A_badsum /\ Done(r) /\ rq[r].resp.status = 400

\* the upstream calls of the fetching and pricing stages
FetchCalls(q) == q.calls \ {<<"resolveName">>}

\* C5: for a name, a resolution that times out, throws or finds no record
\* ends the request with 400 before any fetch is started; the request is in
\* or past the fetching stage only if the resolution returned an address that
\* passes validation.
C5_EnsGate ==
    \A r \in Reqs : (rq[r].pc # "idle" /\ isEnsName(rq[r].input) /\ ~rq[r].hit) =>
        /\ rq[r].ensOut \in {"null", "fail", "timeout"} =>
              /\ Done(r)
              /\ rq[r].resp.status = 400
              /\ FetchCalls(rq[r]) = {}
        /\ rq[r].ensOut = "none" => rq[r].pc = "resolving" /\ FetchCalls(rq[r]) = {}
        /\ (rq[r].pc \in {"fetching", "pricing"} \/ rq[r].resp.status = 200 \/ FetchCalls(rq[r]) # {})
              => rq[r].ensOut = "address" /\ isAddress(rq[r].address)

\* a name whose resolution timed out was answered with 400
C5_Witness ==
    \E r \in Reqs :
        /\ isEnsName(rq[r].input) /\ rq[r].ensOut = "timeout"
        /\ Done(r) /\ rq[r].resp.status = 400 /\ rq[r].calls = {<<"resolveName">>}


\* a chain, the NFT source, the activity source gave the request nothing
ChainFailed(q, c) == q.chainOut[c][1].how = "timeout" \/ net[c] \in {"down", "slow"}
NftFailed(q) == q.nftOut[1].how = "timeout" \/ q.nftF.bulk = "failed"
ActivityFailed(q) == q.actOut[1].how = "timeout" \/ q.actF.call = "failed"

\* the tokens whose price is taken from the market-data answer
FromMarket(t) == TSymbol(t) \in {S_ETH, S_WETH, S_MATIC}

\* the hard-coded price a token gets when the market-data call fails
FallbackPrice(b, t) ==
    IF TSymbol(t) = S_ETH THEN EthFallbackPrice
    ELSE IF b = "safe" /\ TSymbol(t) = S_WETH THEN EthFallbackPrice
    ELSE IF b = "safe" /\ TSymbol(t) = S_MATIC THEN MaticFallbackPrice
    ELSE 0

\* every request for a valid address that ran the pipeline ends with 200,
\* and the failed list sources contribute nothing
DegradesTo200(r) ==
    /\ rq[r].resp.status = 200
    /\ \A c \in ChainSet : ChainFailed(rq[r], c) => OnChain(Body(r).tokens, c) = <<>>
    /\ NftFailed(rq[r]) => Body(r).nfts = <<>> /\ Body(r).nftCount = 0
    /\ ActivityFailed(rq[r]) => Body(r).activity = <<>>

Keys(tokens) == {TokenKey(tokens[i]) : i \in 1..Len(tokens)}

\* what a chain whose provider is up holds for the wallet and the filter keeps
ExpectedKeys(d) ==
    LET all == <<NativeToken(d, 100000)>>
               \o [i \in 1..Len(TokenBalances(d)) |-> Erc20Token(d, TokenBalances(d)[i])]
        kept(t) == t.balance >= TokenDust /\ NotSpam(t)
    IN  Keys(SelectSeq(all, kept))

\* C3: when the fetch of a chain times out, the response is 200, it lists no
\* token of that chain and does not name it in chainsWithBalance, and the
\* tokens of every other chain, the NFTs and the activity are what the other
\* sources delivered: all of a working chain's tokens that pass the filter,
\* the fetched collections, the fetched transactions.
C3_OneChainTimesOut ==
    \A r \in Reqs : Served(r) =>
        \A c \in ChainSet : rq[r].chainOut[c][1].how = "timeout" =>
            /\ c \notin SeqToSet(Body(r).chainsWithBalance)
            /\ OnChain(Body(r).tokens, c) = <<>>
            /\ \A d \in ChainSet \ {c} :
                  /\ Keys(OnChain(Body(r).tokens, d))
                        = Keys(SelectSeq(rq[r].chainOut[d][1].tokens, NotSpam))
                  /\ (net[d] = "up") => Keys(OnChain(Body(r).tokens, d)) = ExpectedKeys(d)
            /\ Body(r).nfts = ValidNfts(build, rq[r].nftOut[1].cols)
            /\ Body(r).activity = rq[r].actOut[1].items
            /\ (rq[r].actF.call = "ok" /\ rq[r].actOut[1].how = "returned")
                  => Body(r).activity = Transactions

\* one chain timed out while the other chain, the NFT source and the activity
\* source delivered
C3_Witness ==
    \E r \in Reqs :
        /\ Served(r)
        /\ rq[r].chainOut["polygon"][1].how = "timeout"
        /\ net["ethereum"] = "up"
        /\ Keys(Body(r).tokens) = ExpectedKeys("ethereum")
        /\ Body(r).chainsWithBalance = <<"ethereum">>
        /\ Body(r).nfts # <<>>
        /\ Body(r).activity = Transactions

\* the sum of the timers of the chain branches
SumChainTimers(b) ==
    LET sum[i \in 0..Len(Chains)] == IF i = 0 THEN 0 ELSE sum[i - 1] + ChainTimeout(b, Chains[i])
    IN  sum[Len(Chains)]

StageTime(q) == q.fetchEnd - q.fetchStart

\* C7: on entering the fetching stage every chain fetch, the NFT fetch and
\* the activity fetch have been started; no branch is open later than its
\* own timer, counted from the start of the stage, so the stage ends no
\* later than the longest branch timer, and when every chain fetch timed out
\* it has lasted less than the sum of the chain timers.
C7_FetchesRunConcurrently ==
    \A r \in Reqs :
        /\ rq[r].pc = "fetching" =>
              /\ \A c \in ChainSet :
                    rq[r].chainF[c].pc # "off" /\ <<"getBalance", c>> \in rq[r].calls
              /\ rq[r].nftF.pc # "off" /\ <<"getNFTsForOwner">> \in rq[r].calls
              /\ rq[r].actF.pc # "off" /\ (etherscanKey => <<"txlist">> \in rq[r].calls)
              /\ rq[r].clock - rq[r].fetchStart <= LongestBranchTimer(build)
              /\ \A c \in ChainSet : rq[r].chainOut[c] = <<>> =>
                    rq[r].clock - rq[r].fetchStart <= ChainTimeout(build, c)
              /\ rq[r].nftOut = <<>> => rq[r].clock - rq[r].fetchStart <= NftTimeout(build)
              /\ rq[r].actOut = <<>> => rq[r].clock - rq[r].fetchStart <= ActivityTimeout(build)
        /\ (rq[r].pc = "pricing" \/ Served(r)) =>
              /\ StageTime(rq[r]) <= LongestBranchTimer(build)
              /\ (\A c \in ChainSet : rq[r].chainOut[c][1].how = "timeout")
                    => StageTime(rq[r]) < SumChainTimers(build)

\* every chain fetch timed out and the stage lasted as long as the longest
\* chain timer
C7_Witness ==
    \E r \in Reqs :
        /\ Served(r)
        /\ \A c \in ChainSet : rq[r].chainOut[c][1].how = "timeout"
        /\ \A c \in ChainSet : StageTime(rq[r]) >= ChainTimeout(build, c)

\* C8: in every 200 response each token's usdValue is its balance times its
\* price and totalValue is the sum of usdValue over the tokens listed, also
\* when the pricing budget fired while the pricing pass was running.
C8_ValuesConsistent ==
    \A r \in Reqs : (Done(r) /\ rq[r].resp.status = 200) =>
        /\ \A i \in 1..Len(Body(r).tokens) :
              Body(r).tokens[i].usdValue = Body(r).tokens[i].balance * Body(r).tokens[i].price
        /\ Body(r).totalValue = SumUsd(Body(r).tokens)
        /\ Body(r).tokenCount = Len(Body(r).tokens)

\* the budget fired after the pass had priced some tokens and before it had
\* asked for the price of the others
C8_Witness ==
    \E r \in Reqs :
        /\ Served(r) /\ rq[r].priceCut /\ rq[r].priceF.market # "none"
        /\ Body(r).totalValue > 0
        /\ \E i \in 1..Len(Body(r).tokens) : NeedsDexPrice(Body(r).tokens[i])

\* the order of two tokens in the upstream data: by the chain list, then
\* native first, then by the provider's balance list
PlaceIn(t) ==
    IF t.isNative THEN 0
    ELSE CHOOSE i \in 1..Len(TokenBalances(t.chain)) : TokenBalances(t.chain)[i] = t.id

UpstreamBefore(x, y) ==
    \/ ChainIdx(x.chain) < ChainIdx(y.chain)
    \/ x.chain = y.chain /\ PlaceIn(x) < PlaceIn(y)

\* C9: in every 200 response the tokens are in non-increasing order of
\* usdValue, and tokens of equal usdValue are in the order of the upstream
\* data, whichever chain fetch completed first.
C9_SortedDeterministically ==
    \A r \in Reqs : (Done(r) /\ rq[r].resp.status = 200) =>
        \A i, j \in 1..Len(Body(r).tokens) : i < j =>
            /\ Body(r).tokens[i].usdValue >= Body(r).tokens[j].usdValue
            /\ Body(r).tokens[i].usdValue = Body(r).tokens[j].usdValue
                  => UpstreamBefore(Body(r).tokens[i], Body(r).tokens[j])

\* the last chain completed first, and tokens of both chains tie
C9_Witness ==
    \E r \in Reqs :
        /\ Served(r)
        /\ rq[r].settled = <<"polygon", "ethereum">>
        /\ \E i, j \in 1..Len(Body(r).tokens) :
               /\ i < j
               /\ Body(r).tokens[i].chain = "ethereum" /\ Body(r).tokens[j].chain = "polygon"
               /\ Body(r).tokens[i].usdValue = Body(r).tokens[j].usdValue
        /\ \E i \in 1..Len(Body(r).tokens) : Body(r).tokens[i].usdValue > 0

\* C10: neither token classifier calls a token spam whose symbol is on the
\* allow-list and whose usdValue is 0, whatever its name; both call a token
\* named 'Visit free-airdrop.com' with usdValue 0 and a symbol off the
\* allow-list spam.
C10_AllowListBeatsPatterns ==
    fnRet # <<>> =>
        LET t == fnArg[1] IN
        /\ (toUpperCase(t.symbol) \in LEGITIMATE_TOKENS /\ t.usdValue = 0)
              => ~fnRet[1].fast /\ ~fnRet[1].safe
        /\ (t.name = N_VisitAirdrop /\ t.usdValue = 0
                /\ toUpperCase(t.symbol) \notin LEGITIMATE_TOKENS)
              => fnRet[1].fast /\ fnRet[1].safe

\* C6: every request gets a response, and never a second one, when timers
\* fire and the event loop runs, whether or not any provider answers.
C6_ExactlyOneResponse ==
    /\ [](\A r \in Reqs :
            /\ rq[r].nresp <= 1
            /\ Done(r) => rq[r].nresp = 1 /\ rq[r].resp.status \in {200, 400, 500})
    /\ \A r \in Reqs : (rq[r].pc # "idle") ~> Done(r)

\* a request was answered although no provider had answered any of its calls
C6_Witness ==
    \E r \in Reqs :
        /\ Served(r) /\ rq[r].nresp = 1 /\ etherscanKey
        /\ \A c \in ChainSet : rq[r].chainOut[c][1].how = "timeout"
        /\ rq[r].nftOut[1].how = "timeout"
        /\ rq[r].actOut[1].how = "timeout"
        /\ rq[r].priceF.market = "none"

\* the tokens a chain's branch delivered to the fan-in
Delivered(q, c) == q.chainOut[c][1].tokens

\* what the price sources, all answering, make of a token: its usdValue after
\* the market-data rules and, in the safe revision, the DEX quote
Worth(b, t) ==
    LET t1 == AfterMarket(b, <<t>>, "full")[1]
    IN  IF b = "safe" /\ NeedsDexPrice(t1) /\ Erc20[t.id].dexPrice # 0
        THEN SetPrice(t1, Erc20[t.id].dexPrice).usdValue
        ELSE t1.usdValue

\* C11: a token that a chain fetcher delivered and that the price sources
\* value above the materiality threshold is among the returned tokens,
\* whatever its name and symbol are: the spam filter does not remove it.
C11_ValuedTokensKept ==
    \A r \in Reqs : Served(r) =>
        \A c \in ChainSet : \A i \in 1..Len(Delivered(rq[r], c)) :
            Worth(build, Delivered(rq[r], c)[i]) > Materiality
                => TokenKey(Delivered(rq[r], c)[i]) \in Keys(Body(r).tokens)

\* C12: a token that passed the dust filter and for which no price source
\* yields a price is returned, with price 0 and usdValue 0: being unpriced
\* never removes a token from the result.
C12_UnpricedTokensKept ==
    (fnRet # <<>> /\ fnRet[1].fetched /\ fnArg[1].quote = 0) =>
        /\ fnRet[1].out.listed
        /\ fnRet[1].out.price = 0
        /\ fnRet[1].out.usdValue = 0

\* a formatted balance the dust rule excludes: an ERC-20 balance below 1e-9,
\* a native balance not above 1e-6
BelowDust(h) == IF h.isNative THEN h.balance <= NativeDust ELSE h.balance < TokenDust

\* C13: no holding below the dust threshold is listed by a chain token
\* fetcher: not by the fetchers of the fast and safe revisions, not by
\* getCompleteTokenList.
C13_NoDustListed ==
    (fnRet # <<>> /\ BelowDust(fnArg[1].holding)) =>
        ~fnRet[1].fetcher /\ ~fnRet[1].complete

\* the tokens of the fetch results that the spam filter lets through
Survivors(q) == UNION {Keys(SelectSeq(Delivered(q, c), NotSpam)) : c \in ChainSet}

\* the stage a request may enter next
StageStep(q, q2) ==
    \/ q2.pc = q.pc
    \/ /\ q.pc = "idle"
       /\ \/ q2.pc = "resolving" /\ isEnsName(q2.input)
          \/ q2.pc = "fetching" /\ ~isEnsName(q2.input) /\ isAddress(q2.address)
          \/ q2.pc = "done" /\ (q2.hit \/ q2.resp.status = 400)
    \/ /\ q.pc = "resolving"
       /\ \/ q2.pc = "fetching" /\ isAddress(q2.address)
          \/ q2.pc = "done" /\ q2.resp.status = 400
    \/ q.pc = "fetching" /\ q2.pc = "pricing" /\ AllSettled(q)
    \/ q.pc = "pricing" /\ q2.pc = "done" /\ q2.resp.status = 200

\* key k of the cache is given a new value by the step
Stored(k) ==
    /\ cache'[k] # <<>>
    /\ \/ cache[k] = <<>>
       \/ cache'[k] # cache[k] /\ cache'[k][1].age = 0

\* C14: a request that misses the cache goes through resolving, fetching,
\* filtering, pricing, done in this order: no fetch call before the address
\* is resolved and validated; the filter runs at the fan-in of all fetches;
\* prices are requested only for the tokens that survived the filter; the
\* result is stored in the cache only in the step that ends pricing, with
\* totals and order computed; 400 is answered only from resolving and
\* validation, before any fetch.
C14_StagesInOrder ==
    /\ [](\A r \in Reqs :
            /\ rq[r].pc \in {"idle", "resolving"} => FetchCalls(rq[r]) = {} /\ rq[r].live = <<>>
            /\ rq[r].pc = "fetching" =>
                  /\ isAddress(rq[r].address)
                  /\ rq[r].live = <<>>
                  /\ <<"simplePrice">> \notin rq[r].calls /\ <<"dexscreener">> \notin rq[r].calls
            /\ rq[r].pc = "pricing" =>
                  /\ AllSettled(rq[r])
                  /\ Keys(rq[r].live) = Survivors(rq[r])
                  /\ SeqToSet(rq[r].priceF.need) \subseteq Survivors(rq[r])
            /\ (Done(r) /\ ~rq[r].hit) =>
                  /\ rq[r].resp.status \in {200, 400}
                  /\ rq[r].resp.status = 400 => FetchCalls(rq[r]) = {} /\ rq[r].live = <<>>
                  /\ rq[r].resp.status = 200 => Keys(Body(r).tokens) = Survivors(rq[r]))
    /\ [][/\ \A r \in Reqs : StageStep(rq[r], rq'[r])
          /\ \A k \in CacheKeys : Stored(k) =>
                \E r \in Reqs :
                    /\ rq[r].pc = "pricing" /\ rq'[r].pc = "done"
                    /\ k = cacheKey(rq[r].input)
                    /\ cache'[k][1].val = rq'[r].resp.body[1]
                    /\ cache'[k][1].val.totalValue = SumUsd(cache'[k][1].val.tokens)
                    /\ cache'[k][1].val.tokens = SortByValue(cache'[k][1].val.tokens)]_vars

\* a name was resolved, its wallet fetched, a spam token filtered out, a
\* token priced by the DEX step, and the result is in the cache
C14_Witness ==
    \E r \in Reqs :
        /\ Served(r) /\ isEnsName(rq[r].input) /\ rq[r].ensOut = "address"
        /\ \E c \in ChainSet : Keys(Delivered(rq[r], c)) \ Survivors(rq[r]) # {}
        /\ <<"dexscreener">> \in rq[r].calls
        /\ cache[cacheKey(rq[r].input)] # <<>>
        /\ cache[cacheKey(rq[r].input)][1].val = Body(r)

\* the calls every fetching stage makes for its own request
OwnFetches ==
    {<<"getBalance", c>> : c \in ChainSet} \cup {<<"getNFTsForOwner">>}
        \cup (IF etherscanKey THEN {<<"txlist">>} ELSE {})

\* C15: requests for the same input that overlap, none of them finding a
\* stored result, each miss the cache, each make their own fetch calls and
\* each are answered 200; every store replaces the entry of the key by the
\* whole body of the storing request, so that the entry is always the whole
\* body of one request, the one that stored last.
C15_OverlappingRequests ==
    /\ [](/\ \A r \in Reqs : (Done(r) /\ ~rq[r].hit /\ isAddress(rq[r].address)) =>
                /\ rq[r].resp.status = 200
                /\ OwnFetches \subseteq rq[r].calls
          /\ \A k \in CacheKeys : cache[k] # <<>> =>
                \E r \in Reqs :
                    Served(r) /\ cacheKey(rq[r].input) = k /\ cache[k][1].val = Body(r))
    /\ [][\A r \in Reqs :
            /\ (rq[r].pc = "idle" /\ rq'[r].pc # "idle" /\ ~CacheLive(cacheKey(rq'[r].input)))
                  => ~rq'[r].hit /\ (isAddress(rq'[r].input) => rq'[r].pc = "fetching")
            /\ (rq[r].pc = "pricing" /\ rq'[r].pc = "done")
                  => cache'[cacheKey(rq[r].input)] = <<[val |-> rq'[r].resp.body[1], age |-> 0]>>]_vars

\* the first of two overlapping requests for one input stored last: both
\* were served with their own calls, their bodies differ, and the entry is
\* the body of the first
C15_Witness ==
    /\ overlap
    /\ Served(1) /\ Served(2)
    /\ rq[1].input = rq[2].input
    /\ OwnFetches \subseteq rq[1].calls /\ OwnFetches \subseteq rq[2].calls
    /\ Body(1) # Body(2)
    /\ Body(1).totalValue # Body(2).totalValue
    /\ cache[cacheKey(rq[1].input)] # <<>>
    /\ cache[cacheKey(rq[1].input)][1].val = Body(1)

\* the two inputs are the same text up to letter case
SameButCase(a, b) == toLowerCase(a) = toLowerCase(b)

\* C16: the cache key is the lowercased input, so inputs that differ only
\* in letter case have one entry: a request that arrives while the entry an
\* earlier request stored for the same text in another letter case is live
\* is a hit and is answered with that entry; and every hit answers what a
\* request for the same text up to case stored.
C16_KeyIgnoresCase ==
    /\ [](\A r \in Reqs : rq[r].hit =>
                \E p \in Reqs :
                    Served(p) /\ SameButCase(rq[p].input, rq[r].input) /\ Body(p) = Body(r))
    /\ [][\A r \in Reqs :
            (/\ rq[r].pc = "idle" /\ rq'[r].pc # "idle"
             /\ \E p \in Reqs :
                    /\ Served(p) /\ SameButCase(rq[p].input, rq'[r].input)
                    /\ CacheLive(cacheKey(rq[p].input)))
            => /\ rq'[r].hit
               /\ \E p \in Reqs :
                    /\ Served(p) /\ SameButCase(rq[p].input, rq'[r].input)
                    /\ rq'[r].resp.body = <<cache[cacheKey(rq[p].input)][1].val>>]_vars

\* a request was answered from the entry stored for the same address
\* written in another letter case
C16_Witness ==
    \E r, p \in Reqs :
        /\ rq[r].hit /\ Served(p)
        /\ rq[p].input # rq[r].input
        /\ SameButCase(rq[p].input, rq[r].input)
        /\ Body(p) = Body(r)

\* the requests served, not from the cache, for the key k
ServedFor(k) == {r \in Reqs : Served(r) /\ cacheKey(rq[r].input) = k}

NativesOn(tokens, c) == {i \in DOMAIN tokens : tokens[i].isNative /\ tokens[i].chain = c}

\* C18: in every 200 response the tokens list has at most one native entry
\* per chain, and so has every list of tokensByChain.
C18_OneNativePerChain ==
    \A r \in Reqs : (Done(r) /\ rq[r].resp.status = 200) =>
        \A c \in ChainSet :
            /\ Cardinality(NativesOn(Body(r).tokens, c)) <= 1
            /\ \A d \in DOMAIN Body(r).tokensByChain :
                    Cardinality(NativesOn(Body(r).tokensByChain[d], c)) <= 1

\* a 200 response lists the native asset of every chain next to ERC-20 tokens
C18_Witness ==
    \E r \in Reqs :
        /\ Served(r)
        /\ \A c \in ChainSet : Cardinality(NativesOn(Body(r).tokens, c)) = 1
        /\ \E i \in DOMAIN Body(r).tokens : ~Body(r).tokens[i].isNative

\* the entries of tokensByChain for chain c, none if the chain has no key
IndexedOn(body, c) ==
    IF c \in DOMAIN body.tokensByChain THEN SeqToSet(body.tokensByChain[c]) ELSE {}

\* C19: in a 200 response tokensByChain[c] holds exactly the entries of
\* tokens whose chain is c, and chainsWithBalance is exactly the set of the
\* chains that have an entry in tokens.
C19_ChainIndexExact ==
    fnRet # <<>> =>
        /\ \A c \in ChainSet :
                IndexedOn(fnRet[1], c) = SeqToSet(OnChain(fnRet[1].tokens, c))
        /\ SeqToSet(fnRet[1].chainsWithBalance)
                = {c \in ChainSet : OnChain(fnRet[1].tokens, c) # <<>>}

\* the lists the response can carry for the collections built from the
\* indexer's answer: every collection whose floor-price call did not answer
\* in time keeps floorPrice 0
NftListsFromAnswer(b) ==
    LET cols == GroupNfts(b, OwnedNfts) IN
    {ValidNfts(b, NftResult(b, WithFloors(cols, priced))) : priced \in SUBSET (1..Len(cols))}

\* C20: when getNFTsForOwner answered with the wallet's NFTs within its own
\* timeout, the nfts of the response are the collections built from that
\* answer, with floorPrice 0 where the floor-price call did not complete;
\* the list is not empty or missing because floor prices were late.
C20_NftsSurviveFloorLatency ==
    \A r \in Reqs :
        (Done(r) /\ ~rq[r].hit /\ rq[r].resp.status = 200 /\ rq[r].nftF.bulk = "ok")
            => Body(r).nfts \in NftListsFromAnswer(build)

\* a step in which the pricing pass of request r writes to the token objects
\* after the response of r was sent
WritesLate(r) == Done(r) /\ rq'[r].live # rq[r].live

\* C21: the pricing pass that lost the race against the budget timer goes
\* on after the response; the prices it writes then change neither the
\* response sent for the request nor the stored result: every entry stays
\* the body a request was answered with, and every later hit is answered
\* with such a body.
C21_LateWritesDiscarded ==
    /\ [](/\ \A k \in CacheKeys : cache[k] # <<>> =>
                \E p \in Reqs : Served(p) /\ cache[k][1].val = Body(p)
          /\ \A r \in Reqs : rq[r].hit =>
                \E p \in Reqs :
                    /\ Served(p) /\ cacheKey(rq[p].input) = cacheKey(rq[r].input)
                    /\ Body(r) = Body(p))
    /\ [][\A r \in Reqs : WritesLate(r) =>
                /\ rq[r].priceCut
                /\ rq'[r].resp = rq[r].resp
                /\ cache' = cache]_vars

\* the budget timer of a request fired first, the request was answered and
\* stored, its pricing pass wrote a price afterwards, and a later request
\* for the key was answered from the cache with the body of the first
C21_Witness ==
    \E p, r \in Reqs :
        /\ Served(p) /\ rq[p].priceCut
        /\ rq[p].live # Body(p).tokens
        /\ rq[r].hit /\ Body(r) = Body(p)
        /\ cache[cacheKey(rq[p].input)] # <<>>
        /\ cache[cacheKey(rq[p].input)][1].val = Body(p)

\* C22: every token of a 200 response whose symbol is in the stablecoin set
\* has price 1 and usdValue equal to its balance, whatever became of the
\* market-data call.
C22_StablecoinsAtOne ==
    \A r \in Reqs : Served(r) =>
        \A i \in DOMAIN Body(r).tokens :
            LET t == Body(r).tokens[i] IN
            TSymbol(t) \in Stablecoins(build) => t.price = 1 /\ t.usdValue = t.balance

\* the seconds since request p made its market-data call, for a request
\* whose result is still stored: the age of the entry and the time the
\* request spent in its pricing stage
SinceMarketCall(p) ==
    cache[cacheKey(rq[p].input)][1].age + (rq[p].clock - rq[p].fetchEnd)

\* C23: the reference prices are fetched from the market-data provider at
\* most once per price-cache window of 60 s: a request makes the call only
\* if no earlier request made it within the last 60 s.
C23_OneMarketCallPerWindow ==
    \A p, r \in Reqs :
        (/\ p < r
         /\ Served(p) /\ <<"simplePrice">> \in rq[p].calls
         /\ cache[cacheKey(rq[p].input)] # <<>>
         /\ cache[cacheKey(rq[p].input)][1].val = Body(p)
         /\ rq[r].pc = "pricing" /\ rq[r].clock = rq[r].fetchEnd
         /\ <<"simplePrice">> \in rq[r].calls)
        => SinceMarketCall(p) > PriceCacheTTL

\* the entry of the token list with key k
TokenAt(tokens, k) == tokens[CHOOSE i \in DOMAIN tokens : TokenKey(tokens[i]) = k]

\* the symbols priced by the native/major-asset step and the stablecoin step
PricedFirst(b) == {S_ETH, S_WETH, S_MATIC} \cup Stablecoins(b)

\* C24: the price sources are consulted in priority order and a token is
\* done at the first that prices it: the DEX lookups are for tokens that
\* have a contract address and no price from the native/major-asset and
\* stablecoin steps, each lookup writes to the token it was made for only,
\* and a price once set is not written again.
C24_FirstPriceWins ==
    /\ [](\A r \in Reqs :
            /\ (rq[r].pc = "pricing" /\ rq[r].priceF.pc = "dex") =>
                  /\ build = "safe"
                  /\ \A j \in 1..Len(rq[r].priceF.need) :
                        LET t == TokenAt(rq[r].live, rq[r].priceF.need[j]) IN
                        /\ t.contract
                        /\ TSymbol(t) \notin PricedFirst(build)
                        /\ j >= rq[r].priceF.pos => t.price = 0
            /\ <<"dexscreener">> \in rq[r].calls => build = "safe")
    /\ [][\A r \in Reqs :
            (rq[r].pc \in {"pricing", "done"} /\ rq'[r].pc \in {"pricing", "done"} /\ ~rq[r].hit) =>
                \A i \in DOMAIN rq[r].live :
                    LET t == rq[r].live[i]
                        u == TokenAt(rq'[r].live, TokenKey(t))
                    IN  /\ t.price # 0 => u.price = t.price /\ u.usdValue = t.usdValue
                        /\ (rq[r].priceF.pc = "dex" /\ rq[r].pc = "pricing" /\ u.price # t.price)
                              => TokenKey(t) = rq[r].priceF.need[rq[r].priceF.pos]]_vars

\* a response of the safe build with a token priced by each step and one
\* left without a price: the native asset at the market price, a stablecoin
\* at 1, a token at its DEX price
C24_Witness ==
    \E r \in Reqs :
        /\ Served(r) /\ build = "safe" /\ <<"dexscreener">> \in rq[r].calls
        /\ \E i, j, k, l \in DOMAIN Body(r).tokens :
            /\ Body(r).tokens[i].isNative /\ Body(r).tokens[i].price = MarketData.ethereum
            /\ TSymbol(Body(r).tokens[j]) \in Stablecoins(build) /\ Body(r).tokens[j].price = 1
            /\ Body(r).tokens[k].contract /\ Body(r).tokens[k].price = Erc20[Body(r).tokens[k].id].dexPrice
            /\ TSymbol(Body(r).tokens[k]) \notin PricedFirst(build) /\ Body(r).tokens[k].price > 0
            /\ Body(r).tokens[l].contract /\ Body(r).tokens[l].price = 0

\* C25: getTokenPrice returns 0 for a token with a contract address only
\* after the static table, 1inch, DexScreener and CoinGecko have all been
\* tried; DexScreener is asked whenever 1inch gave no positive price.
C25_ZeroAfterAllSources ==
    (fnRet # <<>> /\ fnArg[1].hasContract) =>
        LET got == fnRet[1].got IN
        /\ got.price = 0 => got.asked = <<"1inch", "dexscreener", "coingecko">>
        /\ (got.asked # <<>> /\ got.asked # <<"1inch">>) => got.asked[2] = "dexscreener"

\* C26: when DexScreener returns several pairs for a token, the price taken
\* from the answer is the priceUsd of the pair with the highest liquidity,
\* in the DEX step of fetchPricesForTokens and in getTokenPrice.
C26_HighestLiquidityPair ==
    (fnRet # <<>> /\ fnArg[1].dex.out = "pairs" /\ Len(fnArg[1].dex.pairs) > 1) =>
        /\ fnRet[1].loop = DexPairPriceByLiquidity(fnArg[1].dex.pairs)
        /\ (fnRet[1].got.asked = <<"1inch", "dexscreener">>)
                => fnRet[1].got.price = DexPairPriceByLiquidity(fnArg[1].dex.pairs)

\* the collection id is in the list
Listed(cols, id) == \E i \in DOMAIN cols : cols[i].id = id

\* the floor price of the collection id of the wallet became known: its
\* floor-price call answered in time with a nonzero price
FloorKnown(b, arg, id) ==
    \E i \in arg.priced : GroupNfts(b, arg.owned)[i].id = id /\ NftCatalog[id].floor > 0

\* the name matches one of the promotional patterns of the code
Promotional(b, name) == SkippedAtGrouping(b, name) \/ isSpamNFT(name)

\* C27: a collection with a nonzero floor price, or with at least 5 items,
\* or with a name on the allow-list of known collections is in the nfts of
\* the response; a collection that is not is missing only if its name has
\* a promotional pattern.
C27_NftSpamRule ==
    fnRet # <<>> =>
        \A k \in DOMAIN fnArg[1].owned :
            LET id == fnArg[1].owned[k]
                protected ==
                    \/ FloorKnown(build, fnArg[1], id)
                    \/ NftCatalog[id].items >= 5
                    \/ \E w \in KnownCollectionWords : includes(NftCatalog[id].name, w)
            IN  /\ protected => Listed(fnRet[1].nfts, id)
                /\ (~protected /\ ~Listed(fnRet[1].nfts, id))
                        => Promotional(build, NftCatalog[id].name)

\* C28: in the list the NFT fetcher returns, every collection with a known
\* floor price precedes every collection without one, the priced ones are
\* in descending order of totalValue and the others in descending order of
\* their number of items.
C28_NftOrder ==
    fnRet # <<>> =>
        LET cols == fnRet[1].fetched IN
        \A i, j \in DOMAIN cols : i < j =>
            /\ cols[j].floorPrice > 0 => cols[i].floorPrice > 0
            /\ (cols[i].floorPrice > 0 /\ cols[j].floorPrice > 0)
                    => cols[i].totalValue >= cols[j].totalValue
            /\ (cols[i].floorPrice = 0 /\ cols[j].floorPrice = 0)
                    => cols[i].items >= cols[j].items

\* the content identifier of an ipfs:// URI
CidOf(uri) == SubSeq(uri, Len(L_ipfsScheme) + 1, Len(uri))

\* C29: the image of an item is the first non-empty of the image fields in
\* the order of the fetcher; when that is an ipfs:// URI the image returned
\* is an https URL that contains the same content identifier, and the item
\* has hasImage true.
C29_ImageResolved ==
    fnRet # <<>> =>
        LET first == FirstNonEmpty(fnArg[1].item, ImageFields(fnArg[1].rev)) IN
        /\ fnRet[1].hasImage = (first # <<>>)
        /\ (first # <<>> /\ ~startsWith(first, L_ipfsScheme)) => fnRet[1].image = first
        /\ (first # <<>> /\ startsWith(first, L_ipfsScheme)) =>
                /\ startsWith(fnRet[1].image, L_httpsScheme)
                /\ includes(fnRet[1].image, CidOf(first))
                /\ fnRet[1].hasImage

\* the items of a page a fetcher does not skip by contract name
FiledItems(rev, page) ==
    {i \in DOMAIN page : rev = "part_001" \/ ~SkippedAtGrouping(rev, page[i].contract.name)}

\* C30: every item of the page that is not skipped is in exactly one
\* collection; two items are in the same collection exactly when they have
\* the same contract address; within a collection the items are in the order
\* of the page.
C30_OneCollectionPerContract ==
    fnRet # <<>> =>
        LET page == fnArg[1].page
            cols == fnRet[1]
            In(k, i) == \E n \in DOMAIN cols[k].nfts : cols[k].nfts[n] = i
        IN  /\ \A i \in FiledItems(fnArg[1].rev, page) :
                    Cardinality({k \in DOMAIN cols : In(k, i)}) = 1
            /\ \A i, j \in FiledItems(fnArg[1].rev, page) :
                    (\E k \in DOMAIN cols : In(k, i) /\ In(k, j))
                        <=> page[i].contract.address = page[j].contract.address
            /\ \A k \in DOMAIN cols : \A m, n \in DOMAIN cols[k].nfts :
                    m < n => cols[k].nfts[m] < cols[k].nfts[n]

\* the batch size the fetcher of a revision is to keep to
BatchLimit(rev) == IF rev = "fast" THEN 5 ELSE 10

\* C31: during one chain token fetch the metadata calls in flight never
\* exceed the batch size (5 in the fast build, 10 otherwise); the calls of a
\* batch are started together, and only in the step in which the last call of
\* the batch before settles.
C31_BoundedMetadataCalls ==
    /\ [](fnArg # <<>> /\ fnRet # <<>> =>
            Cardinality(CallsInFlight) <= BatchLimit(fnArg[1].rev))
    /\ [][fnArg # <<>> /\ fnRet # <<>> /\ fnArg[1].rev # "debugging" =>
            LET started == CallsInFlight' \ CallsInFlight IN
            started # {} =>
                /\ CallsInFlight' = started
                /\ started = BatchOf(fnArg[1], fnRet[1].pos')
                /\ Cardinality(CallsInFlight) <= 1]_vars

\* the fetcher has returned its list
Returned == fnArg # <<>> /\ fnRet # <<>> /\ fnRet[1].pc = "returned"

\* the entries of the token-balance listing in the returned list, in order
EntriesOf(tokens) ==
    LET erc == SelectSeq(tokens, LAMBDA t : t.kind = "erc20")
    IN  [k \in DOMAIN erc |-> erc[k].entry]

\* the entries of 1..n whose metadata call answered with a symbol, in order
RECURSIVE AnsweredEntries(_, _)
AnsweredEntries(run, i) ==
    IF i > run.n THEN <<>>
    ELSE (IF MetaOutcome(run, i) = "ok" THEN <<i>> ELSE <<>>) \o AnsweredEntries(run, i + 1)

\* the run got as far as the metadata calls
MetadataAsked(run) ==
    /\ run.listing = "list"
    /\ run.native = "ok" \/ run.rev \in Builds

\* C32: an entry whose metadata call fails, has no result, or has a result
\* without a symbol is not in the list the fetcher returns, and every other
\* entry of the listing is, in the order of the listing.
C32_BadMetadataDropped ==
    Returned /\ MetadataAsked(fnArg[1]) =>
        /\ ~fnRet[1].threw
        /\ EntriesOf(fnRet[1].tokens) = AnsweredEntries(fnArg[1], 1)

\* C33: the fetcher never throws, and what it returns has the native entry
\* exactly when the native-balance call answered, and the ERC-20 entries of
\* the metadata calls exactly when the token-balance listing answered:
\* neither failure takes the other sub-result away.
C33_SubResultsIndependent ==
    Returned =>
        /\ ~fnRet[1].threw
        /\ SelectSeq(fnRet[1].tokens, LAMBDA t : t.kind = "native")
              = (IF fnArg[1].native = "ok"
                 THEN <<[kind |-> "native", entry |-> 0, symbol |-> "ETH"]>> ELSE <<>>)
        /\ SelectSeq(fnRet[1].tokens, LAMBDA t : t.kind = "erc20")
              = (IF fnArg[1].listing = "list" THEN BatchResults(fnArg[1], 1, fnArg[1].n) ELSE <<>>)

\* C34: without explorer credentials no explorer call is made; and when the
\* credentials are missing, the explorer call fails, times out or answers
\* with something that is no list, or the activity timer fires first, the
\* activity branch settles with the empty list and the request is still
\* answered 200, with an empty activity list.
C34_ActivityBestEffort ==
    \A r \in Reqs : (rq[r].pc # "idle" /\ ~rq[r].hit) =>
        /\ ~etherscanKey => <<"txlist">> \notin rq[r].calls
        /\ rq[r].actOut # <<>> =>
              /\ (~etherscanKey \/ ActivityFailed(rq[r])) => rq[r].actOut[1].items = <<>>
              /\ Done(r) =>
                    /\ rq[r].resp.status = 200
                    /\ Body(r).activity = rq[r].actOut[1].items

\* a request was served with tokens and without activity: once without
\* credentials, once after the explorer call had failed in time
C34_Witness ==
    \E r \in Reqs :
        /\ Served(r) /\ Body(r).tokens # <<>> /\ Body(r).activity = <<>>
        /\ \/ ~etherscanKey
           \/ rq[r].actF.call = "failed" /\ rq[r].actOut[1].how = "returned"

\* the request is answered with an error in this step
EndsInError(r) ==
    rq[r].pc # "done" /\ rq'[r].pc = "done" /\ rq'[r].resp.status \in {400, 500}

Degraded(q) ==
    \/ \E c \in ChainSet : q.chainOut[c][1].how = "timeout"
    \/ NftFailed(q)
    \/ ActivityFailed(q)

\* C36: a result is stored under the key of its request whether or not a
\* source failed or timed out; a request that arrives while the entry is live
\* returns the stored result as it is and makes no upstream call, whatever
\* the providers would answer by then.
C36_DegradedResultCached ==
    /\ [][\A p \in Reqs :
            (rq[p].pc = "pricing" /\ rq'[p].pc = "done") =>
                /\ rq'[p].resp.status = 200
                /\ cache'[cacheKey(rq[p].input)] = <<[val |-> rq'[p].resp.body[1], age |-> 0]>>]_vars
    /\ [][\A r \in Reqs :
            (rq[r].pc = "idle" /\ rq'[r].pc # "idle" /\ CacheLive(cacheKey(rq'[r].input))) =>
                /\ rq'[r].hit /\ rq'[r].pc = "done"
                /\ rq'[r].calls = {}
                /\ rq'[r].resp.body = <<cache[cacheKey(rq'[r].input)][1].val>>
                /\ cache' = cache]_vars
    /\ [](\A r \in Reqs : rq[r].hit =>
            \E p \in Reqs : /\ p < r /\ Served(p)
                            /\ cacheKey(rq[p].input) = cacheKey(rq[r].input)
                            /\ rq[r].resp.body = rq[p].resp.body
                            /\ Degraded(rq[p]) => rq[r].calls = {})

\* the last chain timed out for the first request, every provider answers
\* again, and the second request is served the stored result without the
\* tokens of that chain
C36_Witness ==
    \E p, r \in Reqs :
        /\ p < r /\ Served(p) /\ rq[r].hit
        /\ rq[p].chainOut[Chains[Len(Chains)]][1].how = "timeout"
        /\ \A x \in Providers : net[x] = "up"
        /\ rq[r].resp.body = rq[p].resp.body
        /\ OnChain(Body(r).tokens, Chains[Len(Chains)]) = <<>>
        /\ Body(r).tokens # <<>>

\* the chain's timer won the race against the chain's fetcher
CutOff(q, c) == q.chainOut[c] # <<>> /\ q.chainOut[c][1].how = "timeout"

\* C37: when the timer of a chain fires before the chain's fetcher returns,
\* the chain's branch has the empty list, whatever the fetcher had obtained
\* by then; nothing the fetcher does afterwards changes the branch; and the
\* response and the cache entry hold no token of that chain.
C37_ChainAllOrNothing ==
    /\ [](\A r \in Reqs, c \in ChainSet : CutOff(rq[r], c) =>
            /\ rq[r].chainOut[c][1].tokens = <<>>
            /\ rq[r].pc = "pricing" => OnChain(rq[r].live, c) = <<>>
            /\ Served(r) =>
                  /\ OnChain(Body(r).tokens, c) = <<>>
                  /\ cache[cacheKey(rq[r].input)] # <<>> =>
                        OnChain(cache[cacheKey(rq[r].input)][1].val.tokens, c) = <<>>)
    /\ [][\A r \in Reqs, c \in ChainSet :
            (rq[r].chainOut[c] # <<>> /\ rq'[r].pc # "idle") =>
                rq'[r].chainOut[c] = rq[r].chainOut[c]]_vars

\* the fetcher of the first chain had the native balance, lost the race
\* against the chain's timer, returned its list afterwards, and the tokens
\* handed to the pricing pass have none of that chain but some of another
C37_Witness ==
    \E r \in Reqs :
        /\ rq[r].pc = "pricing"
        /\ CutOff(rq[r], Chains[1])
        /\ rq[r].chainF[Chains[1]].pc = "returned"
        /\ \E i \in DOMAIN rq[r].chainF[Chains[1]].acc : rq[r].chainF[Chains[1]].acc[i].isNative
        /\ OnChain(rq[r].live, Chains[1]) = <<>>
        /\ rq[r].live # <<>>

\* C38: the cache is keyed by the input of the request, not by the address
\* it resolves to: a hit returns the result of an earlier request with the
\* same input up to letter case, so a result stored for a name never answers
\* a request by address; a request misses when no live entry is under the key
\* of its own input; and a hit on a name's entry makes no resolveName call and
\* returns the address and the name that were stored.
C38_KeyedByInput ==
    /\ [](\A r \in Reqs : rq[r].hit =>
            /\ <<"resolveName">> \notin rq[r].calls
            /\ \E p \in Reqs :
                  /\ p < r /\ Served(p)
                  /\ toLowerCase(rq[p].input) = toLowerCase(rq[r].input)
                  /\ Body(r).address = Body(p).address
                  /\ Body(r).ensName = Body(p).ensName)
    /\ [](\A r \in Reqs : (Served(r) /\ rq[r].ensName # Null) =>
            cacheKey(rq[r].input) # cacheKey(Body(r).address))
    /\ [][\A r \in Reqs :
            (rq[r].pc = "idle" /\ rq'[r].pc # "idle") =>
                LET k == L_walletPrefix \o toLowerCase(rq'[r].input)
                IN  rq'[r].hit <=> (k \in DOMAIN cache /\ CacheLive(k))]_vars

\* a request by name was served, and a later request by the address the name
\* resolved to was a miss and was served on its own; the cache holds both
\* results
C38_Witness ==
    \E p, r \in Reqs :
        /\ p < r /\ Served(p) /\ Served(r)
        /\ rq[p].ensName # Null
        /\ rq[r].ensName = Null
        /\ toLowerCase(rq[r].input) = toLowerCase(Body(p).address)
        /\ cache[cacheKey(rq[p].input)] # <<>>
        /\ cache[cacheKey(rq[r].input)] # <<>>
        /\ cacheKey(rq[p].input) # cacheKey(rq[r].input)

\* the key had a live entry when getCachedData was called
HadLiveEntry(call) == call.entry # <<>> /\ call.entry[1].age <= call.entry[1].ttl

\* C39: getCachedData calls fetchFunction only when the key has no live
\* entry, and then once; a hit returns the stored value; on a miss a truthy
\* value (an empty list included) is stored under the key with the ttl of
\* the call and returned, a falsy one is returned and not stored, and when
\* fetchFunction throws the call returns null and no entry is stored.
C39_GetCachedData ==
    (fnArg # <<>> /\ fnRet # <<>>) =>
        LET call == fnArg[1]
            f == fnRet[1]
        IN  /\ f.calls <= 1
            /\ HadLiveEntry(call) => f.calls = 0
            /\ f.pc = "returned" =>
                 /\ ~f.threw
                 /\ IF HadLiveEntry(call)
                    THEN f.ret = call.entry[1].val /\ f.store = call.entry
                    ELSE /\ f.calls = 1
                         /\ call.settles.how = "throw" => f.ret = V_null /\ f.store = <<>>
                         /\ call.settles.how = "value" =>
                               /\ f.ret = call.settles.val
                               /\ f.store = IF Truthy(call.settles.val)
                                            THEN <<[val |-> call.settles.val, ttl |-> call.ttl,
                                                    age |-> 0]>>
                                            ELSE <<>>

=============================================================================
